---------------------------- MODULE Spec2Model ----------------------------
(***************************************************************************)
(* A model of remctl's network utility layer (util/network.c): the address *)
(* predicates network_addr_match and network_sockaddr_equal, the socket    *)
(* binders network_bind_ipv4 / network_bind_ipv6 / network_bind_all and    *)
(* the outbound connector network_connect / network_connect_host; and of   *)
(* the daemon's main routine (server/remctld.c): watchdog, credentials,    *)
(* listening socket, PID file, accept loop and connection handler.         *)
(*                                                                         *)
(* Texts are TLA+ strings read character by character, the way the C code  *)
(* and the C library read them.  An in_addr is the tuple of its 4 bytes in *)
(* memory (network) order, an in6_addr the tuple of its 16 bytes.          *)
(***************************************************************************)
EXTENDS Integers, Sequences, FiniteSets, TLC

VARIABLES
    mA, mB, mMask,   \* network_addr_match: the three argument texts
    mGhost,          \* what the argument texts were built from
    mPc,             \* "call" before the call, "done" after it
    mRes,            \* its return value once done
    mShort,          \* a second call with a shorter prefix and its return value
    eA, eB,          \* network_sockaddr_equal: the two socket addresses
    eGhost,          \* the family and address bytes each was built from
    ePc,             \* "call" before the call, "done" after it
    eRes,            \* its return value once done
    eOut,            \* what network_sockaddr_sprint and network_sockaddr_port
                     \* returned for the two addresses, once called
    open,            \* the process's open socket descriptors
    errno,           \* the C library's errno
    sPc,             \* binders: "idle", "ba_loop" (in network_bind_all), "returned"
    sRet,            \* binders: what the finished call returned
    ba,              \* network_bind_all: its locals and out-parameters
    cPc,             \* network_connect: where the call stands
    cIn,             \* its arguments, and the descriptors open at the call
    cLoc,            \* its locals ai (a position in the list), fd and success
    cHist,           \* what it has done so far
    cRes,            \* its return value once done
    dPc,             \* remctld: where main stands
    dIn,             \* its command line
    dLoc,            \* main's locals, the watchdog timer and the PID file
    dHist            \* what the daemon has done so far

matchVars == <<mA, mB, mMask, mGhost, mPc, mRes, mShort>>

equalVars == <<eA, eB, eGhost, ePc, eRes, eOut>>

bindVars == <<sPc, sRet, ba>>
fdVars == <<open, errno>>

connVars == <<cPc, cIn, cLoc, cHist, cRes>>

daemonVars == <<dPc, dIn, dLoc, dHist>>

vars == <<matchVars, equalVars, fdVars, bindVars, connVars, daemonVars>>

(***************************************************************************)
(* Characters and numbers of the C library                                 *)
(***************************************************************************)

\* The character at 1-based position i of text s; "" stands for the
\* terminating NUL.
At(s, i) == IF i >= 1 /\ i <= Len(s) THEN SubSeq(s, i, i) ELSE ""

DecDigits == "0123456789"
HexLower == "0123456789abcdef"
HexUpper == "0123456789ABCDEF"

\* The value of each hexadecimal digit character.
CharVal ==
    [c \in {SubSeq(HexLower, i, i) : i \in 1..16} \cup {SubSeq(HexUpper, i, i) : i \in 1..16} |->
        IF \E i \in 1..16 : SubSeq(HexLower, i, i) = c
        THEN (CHOOSE i \in 1..16 : SubSeq(HexLower, i, i) = c) - 1
        ELSE (CHOOSE i \in 1..16 : SubSeq(HexUpper, i, i) = c) - 1]

\* The value of a digit in a base, or -1 when c is no digit of that base.
DigitVal(c, base) ==
    IF c \in DOMAIN CharVal /\ CharVal[c] < base THEN CharVal[c] ELSE -1

\* isdigit / isxdigit / isspace of <ctype.h> in the C locale.
IsDigit(c) == DigitVal(c, 10) >= 0
IsXDigit(c) == DigitVal(c, 16) >= 0
IsSpace(c) == c \in {" ", "\t", "\n", "\r", "\f"}

\* Values of an unsigned long at or above this are kept as this value: the
\* code only compares them with 32 and 128.
ULongClamp == 1000000

Clamp(v) == IF v > ULongClamp THEN ULongClamp ELSE v

RECURSIVE SkipSpace(_, _)
SkipSpace(s, i) == IF IsSpace(At(s, i)) THEN SkipSpace(s, i + 1) ELSE i

RECURSIVE DecRun(_, _, _)
\* Consumes decimal digits from position i on; acc is the value so far.
DecRun(s, i, acc) ==
    IF DigitVal(At(s, i), 10) >= 0
    THEN DecRun(s, i + 1, Clamp(acc * 10 + DigitVal(At(s, i), 10)))
    ELSE [val |-> acc, end |-> i]

\* strtoul(s, &end, 10): leading white space, an optional sign, decimal
\* digits.  No digits: value 0 and end = s.  A minus sign negates in
\* unsigned arithmetic, so every nonzero value becomes a huge one.
Strtoul10(s) ==
    LET i == SkipSpace(s, 1)
        neg == At(s, i) = "-"
        j == IF At(s, i) \in {"+", "-"} THEN i + 1 ELSE i
        r == DecRun(s, j, 0)
    IN  IF r.end = j THEN [val |-> 0, end |-> 1]
        ELSE IF neg /\ r.val # 0 THEN [val |-> ULongClamp, end |-> r.end]
        ELSE r

(***************************************************************************)
(* Bytes and bits                                                          *)
(***************************************************************************)

Pow2(k) == 2 ^ k

\* Bit k (0 = least significant) of a byte.
BitOf(x, k) == (x \div Pow2(k)) % 2

\* x & y on bytes.
And8(x, y) ==
    LET S == {k \in 0..7 : BitOf(x, k) = 1 /\ BitOf(y, k) = 1}
        RECURSIVE Sum(_)
        Sum(T) == IF T = {} THEN 0
                  ELSE LET k == CHOOSE e \in T : TRUE
                       IN  Pow2(k) + Sum(T \ {k})
    IN  Sum(S)

\* a & m on a 32-bit word held as its 4 bytes.
And32(a, m) == [i \in 1..4 |-> And8(a[i], m[i])]

Zero4 == <<0, 0, 0, 0>>
Zero16 == [i \in 1..16 |-> 0]

(***************************************************************************)
(* The C library's address parsers and printers, as network.c calls them   *)
(***************************************************************************)

\* acc * base + d on a 32-bit number held as 4 bytes, most significant
\* first, with the overflow out of the top byte.
MulAdd(b, base, d) ==
    LET t4 == b[4] * base + d
        t3 == b[3] * base + (t4 \div 256)
        t2 == b[2] * base + (t3 \div 256)
        t1 == b[1] * base + (t2 \div 256)
    IN  [b |-> <<t1 % 256, t2 % 256, t3 % 256, t4 % 256>>, ovf |-> t1 \div 256 > 0]

RECURSIVE NumRun(_, _, _, _, _)
NumRun(s, i, base, b, ovf) ==
    IF DigitVal(At(s, i), base) >= 0
    THEN LET m == MulAdd(b, base, DigitVal(At(s, i), base))
         IN  NumRun(s, i + 1, base, m.b, ovf \/ m.ovf)
    ELSE [b |-> b, ovf |-> ovf, end |-> i]

\* strtoul(s + i, &end, 0) where s[i] is a digit: 0x.. is hexadecimal, 0.. is
\* octal, anything else decimal.
ParseC(s, i) ==
    IF At(s, i) = "0" /\ At(s, i + 1) \in {"x", "X"} /\ IsXDigit(At(s, i + 2))
    THEN NumRun(s, i + 2, 16, Zero4, FALSE)
    ELSE IF At(s, i) = "0" THEN NumRun(s, i, 8, Zero4, FALSE)
    ELSE NumRun(s, i, 10, Zero4, FALSE)

RECURSIVE AtonParts(_, _, _)
\* The loop of inet_aton: up to three leading one-byte parts, then a last
\* part that fills the remaining bytes; the text may go on after white space.
AtonParts(s, i, parts) ==
    IF ~IsDigit(At(s, i)) THEN [ok |-> FALSE, addr |-> Zero4]
    ELSE LET n == ParseC(s, i)
             c == At(s, n.end)
             k == Len(parts)
         IN  IF n.ovf THEN [ok |-> FALSE, addr |-> Zero4]
             ELSE IF c = "."
             THEN IF k >= 3 \/ n.b[1] # 0 \/ n.b[2] # 0 \/ n.b[3] # 0
                  THEN [ok |-> FALSE, addr |-> Zero4]
                  ELSE AtonParts(s, n.end + 1, Append(parts, n.b[4]))
             ELSE IF c # "" /\ ~IsSpace(c) THEN [ok |-> FALSE, addr |-> Zero4]
             ELSE IF \E j \in 1..k : n.b[j] # 0 THEN [ok |-> FALSE, addr |-> Zero4]
             ELSE [ok |-> TRUE,
                   addr |-> [j \in 1..4 |-> IF j <= k THEN parts[j] ELSE n.b[j]]]

\* inet_aton(text, &addr): nonzero (ok) and the address, or 0.
inet_aton(s) == AtonParts(s, 1, <<>>)

RECURSIVE Pton4Scan(_, _, _, _, _)
\* The loop of inet_pton(AF_INET): exactly four decimal parts of at most 255
\* without leading zeros.  octs are the finished parts, cur the one in hand.
Pton4Scan(s, i, octs, cur, saw) ==
    LET ch == At(s, i) IN
    IF ch = "" THEN
        IF saw /\ Len(octs) = 3 THEN [ok |-> TRUE, addr |-> Append(octs, cur)]
        ELSE [ok |-> FALSE, addr |-> Zero4]
    ELSE IF IsDigit(ch) THEN
        LET new == cur * 10 + DigitVal(ch, 10) IN
        IF (saw /\ cur = 0) \/ new > 255 \/ (~saw /\ Len(octs) >= 4)
        THEN [ok |-> FALSE, addr |-> Zero4]
        ELSE Pton4Scan(s, i + 1, octs, new, TRUE)
    ELSE IF ch = "." /\ saw THEN
        IF Len(octs) >= 3 THEN [ok |-> FALSE, addr |-> Zero4]
        ELSE Pton4Scan(s, i + 1, Append(octs, cur), 0, FALSE)
    ELSE [ok |-> FALSE, addr |-> Zero4]

inet_pton4(s) == Pton4Scan(s, 1, <<>>, 0, FALSE)

\* The end of inet_pton(AF_INET6): the pending group is stored and the bytes
\* after the "::" (at byte offset colonp, -1 when absent) move to the end.
Pton6End(out, colonp, saw, val) ==
    LET full == IF saw > 0 THEN out \o <<val \div 256, val % 256>> ELSE out
        n == Len(full)
    IN  IF n > 16 THEN [ok |-> FALSE, addr |-> Zero16]
        ELSE IF colonp # -1 THEN
            IF n = 16 THEN [ok |-> FALSE, addr |-> Zero16]
            ELSE [ok |-> TRUE,
                  addr |-> [j \in 1..16 |->
                              IF j <= colonp THEN full[j]
                              ELSE IF j <= colonp + (16 - n) THEN 0
                              ELSE full[j - (16 - n)]]]
        ELSE IF n # 16 THEN [ok |-> FALSE, addr |-> Zero16]
        ELSE [ok |-> TRUE, addr |-> full]

RECURSIVE Pton6Scan(_, _, _, _, _, _, _)
\* The loop of inet_pton(AF_INET6): groups of up to four hexadecimal digits
\* between colons, one "::", and optionally a dotted quad as the last 4 bytes.
Pton6Scan(s, i, out, colonp, curtok, saw, val) ==
    LET ch == At(s, i) IN
    IF ch = "" THEN Pton6End(out, colonp, saw, val)
    ELSE IF IsXDigit(ch) THEN
        IF saw + 1 > 4 THEN [ok |-> FALSE, addr |-> Zero16]
        ELSE Pton6Scan(s, i + 1, out, colonp, curtok, saw + 1,
                       val * 16 + DigitVal(ch, 16))
    ELSE IF ch = ":" THEN
        IF saw = 0 THEN
            IF colonp # -1 THEN [ok |-> FALSE, addr |-> Zero16]
            ELSE Pton6Scan(s, i + 1, out, Len(out), i + 1, 0, 0)
        ELSE IF At(s, i + 1) = "" \/ Len(out) + 2 > 16
        THEN [ok |-> FALSE, addr |-> Zero16]
        ELSE Pton6Scan(s, i + 1, out \o <<val \div 256, val % 256>>, colonp,
                       i + 1, 0, 0)
    ELSE IF ch = "." /\ Len(out) + 4 <= 16
                     /\ inet_pton4(SubSeq(s, curtok, Len(s))).ok
    THEN Pton6End(out \o inet_pton4(SubSeq(s, curtok, Len(s))).addr, colonp, 0, 0)
    ELSE [ok |-> FALSE, addr |-> Zero16]

\* inet_pton(AF_INET6, text, &addr): 1 (ok) and the address, or 0.
inet_pton6(s) ==
    IF At(s, 1) = ":" /\ At(s, 2) # ":" THEN [ok |-> FALSE, addr |-> Zero16]
    ELSE Pton6Scan(s, IF At(s, 1) = ":" THEN 2 ELSE 1, <<>>, -1, 1, 0, 0)

RECURSIVE Dec(_)
\* printf("%u"): the decimal text of a natural number.
Dec(n) == IF n < 10 THEN SubSeq(DecDigits, n + 1, n + 1)
          ELSE Dec(n \div 10) \o SubSeq(DecDigits, (n % 10) + 1, (n % 10) + 1)

RECURSIVE Hex(_)
\* printf("%x").
Hex(n) == IF n < 16 THEN SubSeq(HexLower, n + 1, n + 1)
          ELSE Hex(n \div 16) \o SubSeq(HexLower, (n % 16) + 1, (n % 16) + 1)

\* inet_ntop(AF_INET, ...): the dotted quad of 4 bytes.
inet_ntop4(b) == Dec(b[1]) \o "." \o Dec(b[2]) \o "." \o Dec(b[3]) \o "." \o Dec(b[4])

\* The 16-bit groups of an in6_addr.
Words6(b) == [i \in 0..7 |-> b[2 * i + 1] * 256 + b[2 * i + 2]]

\* The longest run of two or more zero groups, the first of the longest:
\* base -1 when there is none.
BestRun6(w) ==
    LET runs == {r \in (0..7) \X (2..8) :
                    /\ r[1] + r[2] <= 8
                    /\ \A i \in r[1]..(r[1] + r[2] - 1) : w[i] = 0
                    /\ (r[1] = 0 \/ w[r[1] - 1] # 0)
                    /\ (r[1] + r[2] = 8 \/ w[r[1] + r[2]] # 0)}
    IN  IF runs = {} THEN [base |-> -1, len |-> 0]
        ELSE LET best == CHOOSE r \in runs :
                            \A q \in runs : q[2] < r[2] \/ (q[2] = r[2] /\ q[1] >= r[1])
             IN  [base |-> best[1], len |-> best[2]]

RECURSIVE Ntop6From(_, _, _, _)
Ntop6From(b, w, best, i) ==
    IF i > 7 THEN IF best.base # -1 /\ best.base + best.len = 8 THEN ":" ELSE ""
    ELSE IF best.base # -1 /\ i >= best.base /\ i < best.base + best.len
    THEN (IF i = best.base THEN ":" ELSE "") \o Ntop6From(b, w, best, i + 1)
    ELSE LET sep == IF i # 0 THEN ":" ELSE "" IN
         IF i = 6 /\ best.base = 0
                  /\ (best.len = 6 \/ (best.len = 7 /\ w[7] # 1)
                                   \/ (best.len = 5 /\ w[5] = 65535))
         THEN sep \o inet_ntop4(<<b[13], b[14], b[15], b[16]>>)
         ELSE sep \o Hex(w[i]) \o Ntop6From(b, w, best, i + 1)

\* inet_ntop(AF_INET6, ...).
inet_ntop6(b) == Ntop6From(b, Words6(b), BestRun6(Words6(b)), 0)

(***************************************************************************)
(* network_addr_match                                                      *)
(***************************************************************************)

\* An unsigned long is the set of the positions (0 = least significant) of
\* its one bits.

\* (1 << k) as the code writes it: the 1 is a 32-bit int, so k = 31 gives
\* INT_MIN, which the |= into an unsigned long sign-extends to bits 31..63.
ShiftOneAsInt(k) == IF k = 31 THEN 31..63 ELSE {k}

\* Byte j (1 = first in memory) of htonl(x): htonl takes the low 32 bits and
\* lays them out most significant byte first.
HtonlByte(x, j) ==
    LET lo == 32 - 8 * j
        RECURSIVE Sum(_)
        Sum(T) == IF T = {} THEN 0
                  ELSE LET p == CHOOSE e \in T : TRUE
                       IN  Pow2(p - lo) + Sum(T \ {p})
    IN  Sum({p \in x : p >= lo /\ p <= lo + 7})

htonl(x) == [j \in 1..4 |-> HtonlByte(x, j)]

\* Variant of PrefixBits: the loop assigns (bits = ...) instead of or-ing
\* (bits |= ...), so only the last prefix bit stays in the mask.
PrefixBitsLastOnlyMut(cidr) == IF cidr = 0 THEN {} ELSE ShiftOneAsInt(31 - (cidr - 1))

\* Variant of PrefixBits: the same loop shifting by 30 - i: every prefix bit one place too low.
PrefixBitsShiftedMut(cidr) == UNION {ShiftOneAsInt(30 - i) : i \in 0..(cidr - 1)}

\* for (bits = 0, i = 0; i < cidr; i++) bits |= (1 << (31 - i));
PrefixBits(cidr) == UNION {ShiftOneAsInt(31 - i) : i \in 0..(cidr - 1)}

\* strchr(mask, '.') != NULL
HasDot(s) == \E i \in 1..Len(s) : At(s, i) = "."

\* The IPv4 branch: a4 and b4 are the parsed addresses, mask is <<>> for a
\* NULL mask and <<text>> otherwise.
Match4(a4, b4, mask) ==
    IF mask = <<>> THEN And32(a4, htonl(0..31)) = And32(b4, htonl(0..31))
    ELSE IF ~HasDot(mask[1]) THEN
        LET r == Strtoul10(mask[1]) IN
        IF r.val > 32 \/ At(mask[1], r.end) # "" THEN FALSE
        ELSE And32(a4, htonl(PrefixBits(r.val))) = And32(b4, htonl(PrefixBits(r.val)))
    ELSE IF inet_aton(mask[1]).ok
    THEN And32(a4, inet_aton(mask[1]).addr) = And32(b4, inet_aton(mask[1]).addr)
    ELSE FALSE

\* Variant of PartialByteMask: the same loop setting the low bits of the byte instead of the high ones.
PartialByteMaskLowMut(cidr) ==
    LET RECURSIVE Loop(_)
        Loop(bits) == IF bits < cidr % 8 THEN Pow2(bits) + Loop(bits + 1) ELSE 0
    IN  Loop(0)

\* for (addr_mask = 0, bits = 0; bits < cidr % 8; bits++)
\*     addr_mask |= (1 << (7 - bits));
PartialByteMask(cidr) ==
    LET RECURSIVE Loop(_)
        Loop(bits) == IF bits < cidr % 8 THEN Pow2(7 - bits) + Loop(bits + 1) ELSE 0
    IN  Loop(0)

RECURSIVE Match6Loop(_, _, _, _)
\* for (i = 0; i * 8 < cidr; i++): whole bytes are compared in full, the
\* last partial byte under PartialByteMask.  Byte i of the C array is
\* element i + 1 here.
Match6Loop(a6, b6, cidr, i) ==
    IF ~(i * 8 < cidr) THEN TRUE
    ELSE IF (i + 1) * 8 <= cidr THEN
        IF a6[i + 1] # b6[i + 1] THEN FALSE
        ELSE Match6Loop(a6, b6, cidr, i + 1)
    ELSE IF And8(a6[i + 1], PartialByteMask(cidr)) # And8(b6[i + 1], PartialByteMask(cidr))
    THEN FALSE
    ELSE Match6Loop(a6, b6, cidr, i + 1)

\* The IPv6 branch after both addresses parsed.
Match6(a6, b6, mask) ==
    IF mask = <<>> THEN Match6Loop(a6, b6, 128, 0)
    ELSE LET r == Strtoul10(mask[1]) IN
         IF r.val > 128 \/ At(mask[1], r.end) # "" THEN FALSE
         ELSE Match6Loop(a6, b6, r.val, 0)

\* Variant of Pton6Both: the same test with && for ||: one parseable text is enough.
Pton6EitherMut(a, b) == inet_pton6(a).ok \/ inet_pton6(b).ok

\* if (!inet_pton(AF_INET6, a, &a6) || !inet_pton(AF_INET6, b, &b6)) return 0;
Pton6Both(a, b) == inet_pton6(a).ok /\ inet_pton6(b).ok

\* network_addr_match(a, b, mask)
NetworkAddrMatch(a, b, mask) ==
    IF inet_aton(a).ok /\ inet_aton(b).ok
    THEN Match4(inet_aton(a).addr, inet_aton(b).addr, mask)
    ELSE IF ~Pton6Both(a, b) THEN FALSE
    ELSE Match6(inet_pton6(a).addr, inet_pton6(b).addr, mask)

(***************************************************************************)
(* The arguments network_addr_match is called with                         *)
(***************************************************************************)

\* Prefix lengths 0..MaxPrefixText4 and 0..MaxPrefixText6 are written out as
\* mask texts for the two families: one past the longest valid prefix.
MaxPrefixText4 == 33
MaxPrefixText6 == 129

\* Byte x with bit k (0 = least significant) inverted.
FlipBit8(x, k) == IF BitOf(x, k) = 1 THEN x - Pow2(k) ELSE x + Pow2(k)

\* Address bytes with bit p inverted, p counted from the most significant
\* bit of the first byte.
FlipBit(addr, p) ==
    [j \in DOMAIN addr |-> IF j = (p \div 8) + 1
                           THEN FlipBit8(addr[j], 7 - (p % 8)) ELSE addr[j]]

V4Bases == {<<10, 0, 0, 1>>, <<203, 0, 113, 5>>}
V4Others(a) ==
    {a} \cup {FlipBit(a, p) : p \in 0..31}
        \cup {FlipBit(FlipBit(a, 3), 20), FlipBit(FlipBit(a, 24), 31), <<10, 1, 0, 2>>}

Mapped(v4) == [j \in 1..16 |-> IF j <= 10 THEN 0 ELSE IF j <= 12 THEN 255 ELSE v4[j - 12]]

V6Bases == {<<32, 1, 13, 184, 0, 0, 0, 0, 0, 0, 0, 0, 0, 0, 0, 1>>,
            Mapped(<<203, 0, 113, 5>>)}
V6FlipPositions == {0, 1, 6, 7, 8, 9, 15, 16, 63, 64, 65, 119, 120, 121, 126, 127}
V6Others(a) ==
    {a} \cup {FlipBit(a, p) : p \in V6FlipPositions}
        \cup {FlipBit(FlipBit(a, 10), 100)}

QuadMasks == {<<255, 255, 255, 0>>, <<255, 255, 0, 0>>, <<255, 0, 0, 0>>, <<0, 0, 0, 0>>,
              <<255, 255, 255, 255>>, <<255, 0, 255, 0>>, <<255, 255, 255, 128>>,
              <<0, 0, 0, 255>>}

\* Texts that are neither a decimal number nor a dotted quad.
RawMasks == {"", "abc", "24x", " 24", "+24", "-1", "-0", "24 ", "0x18", "/24",
             "1.2.3.4.5", "255.255.255", "256.0.0.0", "24.", ".", "255.255.255.0x"}

\* What a mask text is built from, and the text the function receives
\* (<<>> is the NULL pointer).
MaskGhosts ==
    {[kind |-> "null", n |-> 0, m |-> Zero4, text |-> ""]}
        \cup {[kind |-> "prefix", n |-> n, m |-> Zero4, text |-> Dec(n)] :
                n \in 0..(IF MaxPrefixText4 > MaxPrefixText6 THEN MaxPrefixText4
                                                              ELSE MaxPrefixText6)}
        \cup {[kind |-> "quad", n |-> 0, m |-> m, text |-> inet_ntop4(m)] : m \in QuadMasks}
        \cup {[kind |-> "raw", n |-> 0, m |-> Zero4, text |-> t] : t \in RawMasks}

MaskArg(g) == IF g.kind = "null" THEN <<>> ELSE <<g.text>>

\* Other spellings inet_aton takes for 10.0.0.1.
AltSpellings4 == {"10.1", "0x0a.0.0.1", "012.0.0.1", "10.0.0.1 x"}

\* Texts neither parser takes.
BadTexts == {"", "bogus", "10.0.0.1/24", "1.2.3.4.5", "::g", "::1%eth0", "1:2", "10.0.0.256"}

FewMasks == {g \in MaskGhosts : g.kind \in {"null", "quad"}
                                  \/ (g.kind = "prefix" /\ g.n \in {0, 24, 32, 128})
                                  \/ (g.kind = "raw" /\ g.text \in {"", "abc"})}

MasksFor4 == {h \in MaskGhosts : h.kind = "prefix" => h.n <= MaxPrefixText4 \/ h.n = 128}

MixedTexts ==
    [v4 |-> {inet_ntop4(a) : a \in V4Bases},
     v6 |-> {inet_ntop6(a) : a \in V6Bases} \cup {inet_ntop6(Mapped(<<10, 0, 0, 1>>))},
     bad |-> BadTexts]

\* Pairs of texts that are not both of one family.
MixedPairs ==
    (MixedTexts.v4 \X (MixedTexts.v6 \cup MixedTexts.bad))
        \cup (MixedTexts.v6 \X (MixedTexts.v4 \cup MixedTexts.bad))
        \cup (MixedTexts.bad \X (MixedTexts.v4 \cup MixedTexts.v6 \cup MixedTexts.bad))

IdleBind == sPc = "off" /\ sRet = <<>> /\ ba = <<>>

IdleConn == cPc = "off" /\ cIn = <<>> /\ cLoc = <<>> /\ cHist = <<>> /\ cRes = 0

IdleDaemon == dPc = "off" /\ dIn = <<>> /\ dLoc = <<>> /\ dHist = <<>>

IdleSock == open = {} /\ errno = "" /\ IdleBind /\ IdleConn /\ IdleDaemon

IdleEqual ==
    /\ eA = <<>> /\ eB = <<>> /\ eGhost = <<>> /\ ePc = "idle" /\ eRes = FALSE
    /\ eOut = <<>>

\* One call: ghost c is what the texts were built from.
MatchCall(c) ==
    /\ mGhost = c
    /\ mA = c.ta
    /\ mB = c.tb
    /\ mMask = MaskArg(c.mask)
    /\ mPc = "call"
    /\ mRes = FALSE
    /\ mShort = <<>>

\* The calls: two IPv4 addresses (printed, or 10.0.0.1 in another spelling),
\* two IPv6 addresses, and pairs that are not of one family.
InitMatch ==
    /\ IdleEqual
    /\ IdleSock
    /\ \/ \E a \in V4Bases : \E b \in V4Others(a), g \in MasksFor4 :
            MatchCall([fam |-> "v4", a |-> a, b |-> b, ta |-> inet_ntop4(a),
                       tb |-> inet_ntop4(b), mask |-> g])
       \/ \E t \in AltSpellings4, g \in FewMasks :
          \E b \in {<<10, 0, 0, 1>>, <<10, 0, 0, 2>>, <<10, 1, 0, 2>>} :
            MatchCall([fam |-> "v4", a |-> <<10, 0, 0, 1>>, b |-> b, ta |-> t,
                       tb |-> inet_ntop4(b), mask |-> g])
       \/ \E a \in V6Bases : \E b \in V6Others(a), g \in MaskGhosts :
            MatchCall([fam |-> "v6", a |-> a, b |-> b, ta |-> inet_ntop6(a),
                       tb |-> inet_ntop6(b), mask |-> g])
       \/ \E q \in MixedPairs, g \in FewMasks :
            MatchCall([fam |-> "mixed", a |-> Zero4, b |-> Zero4, ta |-> q[1],
                       tb |-> q[2], mask |-> g])

\* The call network_addr_match(a, b, mask) and its return value.
AddrMatch ==
    /\ mPc = "call"
    /\ mPc' = "done"
    /\ mRes' = NetworkAddrMatch(mA, mB, mMask)
    /\ UNCHANGED <<mA, mB, mMask, mGhost, mShort, equalVars, fdVars, bindVars, connVars, daemonVars>>

\* Prefix lengths no longer than n for a second call on the same addresses.
ShorterPrefixes(n) == {m \in {0, n \div 2, n - 8, n - 1, n} : 0 <= m /\ m <= n}

\* After a call with a decimal prefix length n, the call
\* network_addr_match(a, b, m) on the same two texts with a prefix length
\* m <= n, and its return value.
AddrMatchShorter ==
    /\ mPc = "done"
    /\ mShort = <<>>
    /\ mGhost.mask.kind = "prefix"
    /\ \E m \in ShorterPrefixes(mGhost.mask.n) :
        mShort' = [m |-> m, mask |-> <<Dec(m)>>, res |-> NetworkAddrMatch(mA, mB, <<Dec(m)>>)]
    /\ UNCHANGED <<mA, mB, mMask, mGhost, mPc, mRes, equalVars, fdVars, bindVars, connVars, daemonVars>>

NextMatch == AddrMatch \/ AddrMatchShorter

SpecMatch == InitMatch /\ [][NextMatch]_vars

(***************************************************************************)
(* Properties of network_addr_match                                        *)
(***************************************************************************)

\* Bit p of an address, p counted from the most significant bit of the
\* first byte.
BitAt(addr, p) == BitOf(addr[(p \div 8) + 1], 7 - (p % 8))

SamePrefix(a, b, n) == \A p \in 0..(n - 1) : BitAt(a, p) = BitAt(b, p)

\* A decimal prefix length: digits only, of value at most max.
DigitsOnly(s) == Len(s) > 0 /\ \A i \in 1..Len(s) : At(s, i) \in {SubSeq(DecDigits, d, d) : d \in 1..10}
ValidPrefixText(s, max) == DigitsOnly(s) /\ DecRun(s, 1, 0).val <= max

\* A dotted-quad mask: four decimal parts of at most 255.
ValidQuadText(s) == inet_pton4(s).ok

MaskValidFor(fam, s) ==
    CASE fam = "v4" -> ValidPrefixText(s, 32) \/ ValidQuadText(s)
      [] fam = "v6" -> ValidPrefixText(s, 128)
      [] OTHER -> ValidPrefixText(s, 128) \/ ValidQuadText(s)

\* C1: whenever the mask text is neither a valid decimal prefix length for
\* the family of the two addresses nor (IPv4) a valid dotted-quad mask,
\* network_addr_match returns false.
C1_InvalidMaskNeverMatches ==
    (mPc = "done" /\ mMask # <<>> /\ ~MaskValidFor(mGhost.fam, mMask[1]))
        => mRes = FALSE

\* C2: for two IPv4 addresses, a prefix length n in 0..32 matches exactly
\* when the n most significant bits agree, an absent mask exactly when the
\* addresses are equal, and a dotted-quad mask exactly when the addresses
\* agree on every bit the mask has set.
C2_Ipv4MaskedEquality ==
    (mPc = "done" /\ mGhost.fam = "v4") =>
        CASE mGhost.mask.kind = "null" -> mRes = (mGhost.a = mGhost.b)
          [] mGhost.mask.kind = "prefix" /\ mGhost.mask.n <= 32 ->
                mRes = SamePrefix(mGhost.a, mGhost.b, mGhost.mask.n)
          [] mGhost.mask.kind = "quad" ->
                mRes = (\A p \in 0..31 : BitAt(mGhost.mask.m, p) = 1
                                            => BitAt(mGhost.a, p) = BitAt(mGhost.b, p))
          [] OTHER -> TRUE

\* Two different IPv4 addresses that match under a prefix strictly between
\* 0 and 32 bits.
C2_Witness ==
    /\ mPc = "done" /\ mGhost.fam = "v4" /\ mGhost.mask.kind = "prefix"
    /\ mGhost.mask.n = 24 /\ mGhost.a # mGhost.b /\ mRes = TRUE

\* C3: for two IPv6 addresses, a prefix length n in 0..128 (128 when the
\* mask is absent) matches exactly when the first n bits agree: no bit at
\* position n or later has any influence.
C3_Ipv6PrefixEquality ==
    (mPc = "done" /\ mGhost.fam = "v6") =>
        CASE mGhost.mask.kind = "null" -> mRes = (mGhost.a = mGhost.b)
          [] mGhost.mask.kind = "prefix" /\ mGhost.mask.n <= 128 ->
                mRes = SamePrefix(mGhost.a, mGhost.b, mGhost.mask.n)
          [] OTHER -> TRUE

\* Two IPv6 addresses that differ inside the byte a prefix ends in, after
\* the prefix, and match.
C3_Witness ==
    /\ mPc = "done" /\ mGhost.fam = "v6" /\ mGhost.mask.kind = "prefix"
    /\ mGhost.mask.n = 123
    /\ mGhost.a[16] # mGhost.b[16]
    /\ mRes = TRUE

\* C4: network_addr_match returns false for every mask when the two texts
\* are not both IPv4 and not both IPv6 literals, and for two IPv6 literals
\* with a dotted-quad mask.
C4_FamilyMismatchNeverMatches ==
    (mPc = "done" /\ (mGhost.fam = "mixed"
                        \/ (mGhost.fam = "v6" /\ mGhost.mask.kind = "quad")))
        => mRes = FALSE

\* An IPv4 address against its own IPv4-mapped form, under a prefix of 0.
C4_Witness ==
    /\ mPc = "done" /\ mGhost.fam = "mixed"
    /\ mA = "203.0.113.5" /\ mB = "::ffff:203.0.113.5" /\ mMask = <<"0">>
    /\ mRes = FALSE

(***************************************************************************)
(* Socket addresses: network_sockaddr_sprint, network_sockaddr_equal       *)
(***************************************************************************)

\* A struct sockaddr is its family, its port (2 bytes, network order) and
\* the bytes after the port.  For a sockaddr_in these are sin_addr and
\* padding; for a sockaddr_in6, sin6_flowinfo, sin6_addr and sin6_scope_id.
HAVE_INET6 == TRUE

Htons(port) == <<port \div 256, port % 256>>

SockaddrIn(addr, port) ==
    [family |-> "AF_INET", port |-> Htons(port),
     data |-> addr \o <<0, 0, 0, 0, 0, 0, 0, 0>>]
SockaddrIn6(addr, port, flowinfo) ==
    [family |-> "AF_INET6", port |-> Htons(port),
     data |-> flowinfo \o addr \o <<0, 0, 0, 0>>]
SockaddrUn(path) == [family |-> "AF_UNIX", port |-> <<path[1], path[2]>>,
                     data |-> SubSeq(path, 3, Len(path))]

\* ((const struct sockaddr_in *) sa)->sin_addr: the 4 bytes after the port.
SinAddr(sa) == [j \in 1..4 |-> IF j <= Len(sa.data) THEN sa.data[j] ELSE 0]

\* ((const struct sockaddr_in6 *) sa)->sin6_addr: the 16 bytes after
\* sin6_flowinfo.
Sin6Addr(sa) == [j \in 1..16 |-> IF j + 4 <= Len(sa.data) THEN sa.data[j + 4] ELSE 0]

\* IN6_IS_ADDR_V4MAPPED: ::ffff:a.b.c.d
IN6_IS_ADDR_V4MAPPED(a6) ==
    /\ \A j \in 1..10 : a6[j] = 0
    /\ a6[11] = 255 /\ a6[12] = 255

\* memcpy(&in, sin6->sin6_addr.s6_addr + 12, sizeof(in))
Last4(a6) == <<a6[13], a6[14], a6[15], a6[16]>>

INET6_ADDRSTRLEN == 46

\* Variant of NetworkSockaddrSprint: an IPv4-mapped address is printed as
\* any other IPv6 address.
NetworkSockaddrSprintNoMappedMut(size, addr) ==
    LET fit(t) == IF Len(t) + 1 <= size
                  THEN [ok |-> TRUE, text |-> t, errno |-> ""]
                  ELSE [ok |-> FALSE, text |-> "", errno |-> "ENOSPC"]
    IN  IF HAVE_INET6 /\ addr.family = "AF_INET6" THEN fit(inet_ntop6(Sin6Addr(addr)))
        ELSE IF addr.family = "AF_INET" THEN fit(inet_ntop4(SinAddr(addr)))
        ELSE [ok |-> FALSE, text |-> "", errno |-> "EAFNOSUPPORT"]

\* network_sockaddr_sprint(dst, size, addr): success and the text written,
\* or failure and the errno it leaves ("" when untouched).  inet_ntop fails
\* with ENOSPC when the text and its NUL do not fit in size bytes.
NetworkSockaddrSprint(size, addr) ==
    LET fit(t) == IF Len(t) + 1 <= size
                  THEN [ok |-> TRUE, text |-> t, errno |-> ""]
                  ELSE [ok |-> FALSE, text |-> "", errno |-> "ENOSPC"]
    IN  IF HAVE_INET6 /\ addr.family = "AF_INET6" THEN
            IF IN6_IS_ADDR_V4MAPPED(Sin6Addr(addr))
            THEN fit(inet_ntop4(Last4(Sin6Addr(addr))))
            ELSE fit(inet_ntop6(Sin6Addr(addr)))
        ELSE IF addr.family = "AF_INET" THEN fit(inet_ntop4(SinAddr(addr)))
        ELSE [ok |-> FALSE, text |-> "", errno |-> "EAFNOSUPPORT"]

\* Variant of EqualViews: an (IPv4, IPv6) pair is not swapped.
EqualViewsNoSwapMut(a, b) == [a |-> a, b |-> b, a4 |-> a, b4 |-> b, a6 |-> a, b6 |-> b]

\* Variant of EqualViews: the same swap without setting b4 again from the new b.
EqualViewsStaleB4Mut(a, b) ==
    IF HAVE_INET6 /\ a.family = "AF_INET" /\ b.family = "AF_INET6"
    THEN [a |-> b, b |-> a, a4 |-> a, b4 |-> b, a6 |-> b, b6 |-> b]
    ELSE [a |-> a, b |-> b, a4 |-> a, b4 |-> b, a6 |-> a, b6 |-> b]

\* The pointers network_sockaddr_equal works with once an (IPv4, IPv6) pair
\* has been swapped into (IPv6, IPv4): a and b are swapped and the two views
\* the mixed branch reads, a6 and b4, are set again.
EqualViews(a, b) ==
    IF HAVE_INET6 /\ a.family = "AF_INET" /\ b.family = "AF_INET6"
    THEN [a |-> b, b |-> a, a4 |-> a, b4 |-> a, a6 |-> b, b6 |-> b]
    ELSE [a |-> a, b |-> b, a4 |-> a, b4 |-> b, a6 |-> a, b6 |-> b]

\* network_sockaddr_equal(a, b)
NetworkSockaddrEqual(a, b) ==
    LET v == EqualViews(a, b) IN
    IF HAVE_INET6 /\ v.a.family = "AF_INET6" THEN
        IF v.b.family = "AF_INET6" THEN Sin6Addr(v.a6) = Sin6Addr(v.b6)
        ELSE IF v.b.family # "AF_INET" THEN FALSE
        ELSE IF ~IN6_IS_ADDR_V4MAPPED(Sin6Addr(v.a6)) THEN FALSE
        ELSE Last4(Sin6Addr(v.a6)) = SinAddr(v.b4)
    ELSE IF v.a.family # "AF_INET" \/ v.b.family # "AF_INET" THEN FALSE
    ELSE SinAddr(v.a4) = SinAddr(v.b4)

\* Variant of NetworkSockaddrPort: the port bytes are read whatever the family.
NetworkSockaddrPortAnyFamilyMut(sa) == sa.port[1] * 256 + sa.port[2]

\* network_sockaddr_port(sa): htons of the stored port, 0 for other families.
NetworkSockaddrPort(sa) ==
    IF HAVE_INET6 /\ sa.family = "AF_INET6" THEN sa.port[1] * 256 + sa.port[2]
    ELSE IF sa.family # "AF_INET" THEN 0
    ELSE sa.port[1] * 256 + sa.port[2]

(***************************************************************************)
(* The socket addresses network_sockaddr_equal is called with              *)
(***************************************************************************)

EqV4Addrs == {<<203, 0, 113, 5>>, <<203, 0, 113, 6>>, <<0, 0, 0, 0>>}
EqV6Addrs ==
    {Mapped(a) : a \in EqV4Addrs}
        \cup {<<32, 1, 13, 184, 0, 0, 0, 0, 0, 0, 0, 0, 0, 0, 0, 1>>,
              \* ::203.0.113.5, ::fffe:203.0.113.5 and 1::ffff:203.0.113.5
              [j \in 1..16 |-> IF j <= 12 THEN 0 ELSE <<203, 0, 113, 5>>[j - 12]],
              [j \in 1..16 |-> IF j = 12 THEN 254 ELSE Mapped(<<203, 0, 113, 5>>)[j]],
              [j \in 1..16 |-> IF j = 2 THEN 1 ELSE Mapped(<<203, 0, 113, 5>>)[j]]}
EqPorts == {80, 4444}
EqFlowinfos == {Zero4, <<203, 0, 113, 5>>}
EqPaths == {<<47, 116, 109, 112>>, <<203, 0, 113, 5, 0, 0>>}

\* Each socket address with the family and address bytes it was built from.
EqSockaddrs ==
    {[sa |-> SockaddrIn(a, p), fam |-> "v4", addr |-> a] : a \in EqV4Addrs, p \in EqPorts}
    \cup {[sa |-> SockaddrIn6(a, p, f), fam |-> "v6", addr |-> a] :
            a \in EqV6Addrs, p \in EqPorts, f \in EqFlowinfos}
    \cup {[sa |-> SockaddrUn(q), fam |-> "other", addr |-> q] : q \in EqPaths}

IdleMatch ==
    /\ mA = "" /\ mB = "" /\ mMask = <<>> /\ mGhost = <<>> /\ mPc = "idle" /\ mRes = FALSE /\ mShort = <<>>

InitEqual ==
    /\ IdleMatch
    /\ IdleSock
    /\ \E x \in EqSockaddrs, y \in EqSockaddrs :
        /\ eA = x.sa
        /\ eB = y.sa
        /\ eGhost = [a |-> [fam |-> x.fam, addr |-> x.addr],
                     b |-> [fam |-> y.fam, addr |-> y.addr]]
        /\ ePc = "call"
        /\ eRes = FALSE
    /\ eOut = [sprint |-> [a |-> <<>>, b |-> <<>>], port |-> [a |-> <<>>, b |-> <<>>],
               swapped |-> <<>>]

\* The call network_sockaddr_equal(a, b) and its return value.
SockaddrEqual ==
    /\ ePc = "call"
    /\ ePc' = "done"
    /\ eRes' = NetworkSockaddrEqual(eA, eB)
    /\ UNCHANGED <<eA, eB, eGhost, eOut, matchVars, fdVars, bindVars, connVars, daemonVars>>

\* A call network_sockaddr_sprint(dst, INET6_ADDRSTRLEN, addr) on one of the
\* two addresses; a failing call sets errno.
SockaddrSprint ==
    /\ ePc \in {"call", "done"}
    /\ \E w \in {"a", "b"} :
        LET r == NetworkSockaddrSprint(INET6_ADDRSTRLEN, IF w = "a" THEN eA ELSE eB) IN
        /\ eOut.sprint[w] = <<>>
        /\ eOut' = [eOut EXCEPT !.sprint[w] = <<r>>]
        /\ errno' = IF r.ok THEN errno ELSE r.errno
    /\ UNCHANGED <<eA, eB, eGhost, ePc, eRes, open, matchVars, bindVars, connVars,
                   daemonVars>>

\* A call network_sockaddr_port(sa) on one of the two addresses.
SockaddrPort ==
    /\ ePc \in {"call", "done"}
    /\ \E w \in {"a", "b"} :
        /\ eOut.port[w] = <<>>
        /\ eOut' = [eOut EXCEPT !.port[w] = <<NetworkSockaddrPort(IF w = "a" THEN eA ELSE eB)>>]
    /\ UNCHANGED <<eA, eB, eGhost, ePc, eRes, fdVars, matchVars, bindVars, connVars,
                   daemonVars>>

\* The call network_sockaddr_equal(b, a), the arguments the other way round.
SockaddrEqualSwapped ==
    /\ ePc \in {"call", "done"}
    /\ eOut.swapped = <<>>
    /\ eOut' = [eOut EXCEPT !.swapped = <<NetworkSockaddrEqual(eB, eA)>>]
    /\ UNCHANGED <<eA, eB, eGhost, ePc, eRes, fdVars, matchVars, bindVars, connVars,
                   daemonVars>>

NextEqual ==
    \/ SockaddrEqual
    \/ SockaddrEqualSwapped
    \/ SockaddrSprint
    \/ SockaddrPort

SpecEqual == InitEqual /\ [][NextEqual]_vars

\* ::ffff:a.b.c.d, read off the address bytes.
IsMappedOf(a6, a4) ==
    /\ \A j \in 1..10 : a6[j] = 0
    /\ a6[11] = 255 /\ a6[12] = 255
    /\ \A j \in 1..4 : a6[12 + j] = a4[j]

\* C5: network_sockaddr_equal is true for an IPv4 and an IPv6 address, in
\* either order, exactly when the IPv6 address is the IPv4-mapped form of
\* the IPv4 one, and for two addresses of one family exactly when the
\* address bytes are the same, whatever the ports.
C5_EqualAcrossMappedForm ==
    ePc = "done" =>
        CASE eGhost.a.fam = "v4" /\ eGhost.b.fam = "v6" ->
                eRes = IsMappedOf(eGhost.b.addr, eGhost.a.addr)
          [] eGhost.a.fam = "v6" /\ eGhost.b.fam = "v4" ->
                eRes = IsMappedOf(eGhost.a.addr, eGhost.b.addr)
          [] eGhost.a.fam = eGhost.b.fam /\ eGhost.a.fam \in {"v4", "v6"} ->
                eRes = (eGhost.a.addr = eGhost.b.addr)
          [] OTHER -> TRUE

\* An IPv4 address first and its IPv4-mapped form second, on different
\* ports, found equal.
C5_Witness ==
    /\ ePc = "done" /\ eRes = TRUE
    /\ eGhost.a.fam = "v4" /\ eGhost.b.fam = "v6"
    /\ eA.port # eB.port

(***************************************************************************)
(* Descriptors                                                             *)
(***************************************************************************)

\* The process may hold MaxFds socket descriptors, numbered from 3 (0..2 are
\* the standard streams).
MaxFds == 4
Fds == 3..(2 + MaxFds)

Min(S) == CHOOSE x \in S : \A y \in S : x <= y

\* socket(): the lowest free descriptor, or -1 when the kernel refuses
\* (want # "ok") or the table is full.
SocketCall(openSet, want) ==
    IF want # "ok" THEN [fd |-> -1, errno |-> want]
    ELSE IF Fds \ openSet = {} THEN [fd |-> -1, errno |-> "EMFILE"]
    ELSE [fd |-> Min(Fds \ openSet), errno |-> ""]

(***************************************************************************)
(* network_bind_ipv4, network_bind_ipv6                                    *)
(***************************************************************************)

\* Variant of Wildcard: the address text is used as it was given.
WildcardNoAliasMut(address, any) == address

\* if (!strcmp(address, "any") || !strcmp(address, "all")) address = ...;
Wildcard(address, any) == IF address = "any" \/ address = "all" THEN any ELSE address

\* What a binder hands back: the descriptor or -1, the descriptors open
\* afterwards, the sockaddr given to bind() (<<>> when bind was not
\* reached) and whether a warning was logged.
BindResult(fd, openAfter, server, warned) ==
    [fd |-> fd, open |-> openAfter, server |-> server, warned |-> warned]

\* network_bind_ipv4(address, port), with the kernel's answers to socket()
\* and bind() in env.  Its two late failure returns do not close fd.
NetworkBindIpv4(address, port, env, openSet) ==
    LET s == SocketCall(openSet, env.sock) IN
    IF s.fd < 0 THEN BindResult(-1, openSet, <<>>, TRUE)
    ELSE LET text == Wildcard(address, "0.0.0.0")
             server == SockaddrIn(inet_aton(text).addr, port)
         IN  IF ~inet_aton(text).ok
                THEN BindResult(-1, openSet \cup {s.fd}, <<>>, TRUE)
             ELSE IF env.bind # "ok"
                THEN BindResult(-1, openSet \cup {s.fd}, server, TRUE)
             ELSE BindResult(s.fd, openSet \cup {s.fd}, server, FALSE)

\* network_bind_ipv6(address, port): every failure after socket() closes fd;
\* a socket() failure is not logged when the kernel lacks IPv6.
NetworkBindIpv6(address, port, env, openSet) ==
    LET s == SocketCall(openSet, env.sock) IN
    IF s.fd < 0
    THEN BindResult(-1, openSet, <<>>, s.errno \notin {"EAFNOSUPPORT", "EPROTONOSUPPORT"})
    ELSE LET text == Wildcard(address, "::")
             server == SockaddrIn6(inet_pton6(text).addr, port, Zero4)
         IN  IF ~inet_pton6(text).ok
                THEN BindResult(-1, (openSet \cup {s.fd}) \ {s.fd}, <<>>, TRUE)
             ELSE IF env.bind # "ok"
                THEN BindResult(-1, (openSet \cup {s.fd}) \ {s.fd}, server, TRUE)
             ELSE BindResult(s.fd, openSet \cup {s.fd}, server, FALSE)

\* The kernel's answers to one binder call.
BindEnvs == [sock : {"ok", "EMFILE", "EAFNOSUPPORT"}, bind : {"ok", "EADDRINUSE"}]

BindAddresses == {"any", "all", "0.0.0.0", "127.0.0.1", "::", "::1", "bogus"}
BindPorts == {0, 4444}

\* A call of network_bind_ipv4 from the caller.
BindIpv4 ==
    /\ sPc = "idle"
    /\ \E address \in BindAddresses, port \in BindPorts, env \in BindEnvs :
        LET r == NetworkBindIpv4(address, port, env, open) IN
        /\ open' = r.open
        /\ sRet' = [fn |-> "network_bind_ipv4", address |-> address, port |-> port,
                    fd |-> r.fd, openBefore |-> open, server |-> r.server,
                    warned |-> r.warned]
    /\ sPc' = "returned"
    /\ UNCHANGED <<errno, ba, matchVars, equalVars, connVars, daemonVars>>

\* A call of network_bind_ipv6 from the caller.
BindIpv6 ==
    /\ sPc = "idle"
    /\ \E address \in BindAddresses, port \in BindPorts, env \in BindEnvs :
        LET r == NetworkBindIpv6(address, port, env, open) IN
        /\ open' = r.open
        /\ sRet' = [fn |-> "network_bind_ipv6", address |-> address, port |-> port,
                    fd |-> r.fd, openBefore |-> open, server |-> r.server,
                    warned |-> r.warned]
    /\ sPc' = "returned"
    /\ UNCHANGED <<errno, ba, matchVars, equalVars, connVars, daemonVars>>

(***************************************************************************)
(* network_bind_all                                                        *)
(***************************************************************************)

\* getaddrinfo hands back at most MaxAddrs addresses.
MaxAddrs == 3

\* One struct addrinfo of the resolved list.
AddrInfo(sa) == [ai_family |-> sa.family, ai_addr |-> sa]

\* The passive addresses resolved for a port: the IPv4 and IPv6 wildcards,
\* and an address of a family the code does not know.
ResolvedKinds(port) ==
    {AddrInfo(SockaddrIn(Zero4, port)), AddrInfo(SockaddrIn6(Zero16, port, Zero4)),
     AddrInfo(SockaddrUn(<<47, 116, 109, 112>>))}

SeqsUpTo(S, n) == UNION {[1..k -> S] : k \in 0..n}

\* An int of the descriptor array that nothing has been stored in.
Unset == -2

\* Variant of ArrayStore: the same store without (*count)++.
ArrayStoreNoCountMut(a, fd) ==
    LET size == IF a.count >= a.size THEN a.size + 2 ELSE a.size
        fds == IF a.count >= a.size THEN a.fds \o <<Unset, Unset>> ELSE a.fds
    IN  [size |-> size,
         fds |-> IF a.count + 1 <= size THEN [fds EXCEPT ![a.count + 1] = fd] ELSE fds,
         count |-> a.count,
         overflow |-> a.overflow \/ a.count + 1 > size]

\* Variant of ArrayStore: the array grows on *count > size only.
ArrayStoreLateGrowMut(a, fd) ==
    LET size == IF a.count > a.size THEN a.size + 2 ELSE a.size
        fds == IF a.count > a.size THEN a.fds \o <<Unset, Unset>> ELSE a.fds
    IN  [size |-> size,
         fds |-> IF a.count + 1 <= size THEN [fds EXCEPT ![a.count + 1] = fd] ELSE fds,
         count |-> a.count + 1,
         overflow |-> a.overflow \/ a.count + 1 > size]

\* if (*count >= size) { size += 2; *fds = xrealloc(...); }
\* (*fds)[*count] = fd; (*count)++;
\* The array is the sequence of its size slots; a store past the last slot
\* is recorded in overflow.
ArrayStore(a, fd) ==
    LET size == IF a.count >= a.size THEN a.size + 2 ELSE a.size
        fds == IF a.count >= a.size THEN a.fds \o <<Unset, Unset>> ELSE a.fds
    IN  [size |-> size,
         fds |-> IF a.count + 1 <= size THEN [fds EXCEPT ![a.count + 1] = fd] ELSE fds,
         count |-> a.count + 1,
         overflow |-> a.overflow \/ a.count + 1 > size]

\* The EAI_ error codes getaddrinfo may return are negative in the GNU C
\* library and positive in the BSD-derived ones; 0 is success.
GaiResults == {0, -2, 8}

\* network_bind_all(port, &fds, &count) up to its loop: *count = 0, the
\* query, the return on error < 0, and the first allocation.  When the code
\* goes on after a failed query, addrs was never set and the loop walks
\* whatever it holds.
BindAllStart ==
    /\ sPc = "idle"
    /\ \E port \in {4444}, gai \in GaiResults :
       \E list \in SeqsUpTo(ResolvedKinds(port), MaxAddrs), junk \in SeqsUpTo(ResolvedKinds(port), 1) :
        LET resolved == IF gai = 0 THEN list ELSE <<>> IN
        /\ (gai # 0 => list = <<>>)
        /\ (~(gai > 0) => junk = <<>>)
        /\ IF gai < 0
           THEN /\ sPc' = "returned"
                /\ sRet' = [fn |-> "network_bind_all", port |-> port, gai |-> gai,
                            resolved |-> resolved, walked |-> FALSE, allocated |-> FALSE,
                            fds |-> <<>>, count |-> 0, size |-> 0, overflow |-> FALSE,
                            log |-> <<>>, openBefore |-> open]
                /\ ba' = ba
           ELSE /\ sPc' = "ba_loop"
                /\ ba' = [port |-> port, gai |-> gai, resolved |-> resolved,
                          walk |-> IF gai = 0 THEN list ELSE junk,
                          idx |-> 1, name |-> "", size |-> 2, fds |-> <<Unset, Unset>>,
                          count |-> 0, overflow |-> FALSE, log |-> <<>>,
                          openBefore |-> open]
                /\ sRet' = sRet
    /\ UNCHANGED <<open, errno, matchVars, equalVars, connVars, daemonVars>>

\* One turn of the loop over the resolved addresses: print the address, bind
\* by family, store the descriptor if there is one.
BindAllStep ==
    /\ sPc = "ba_loop"
    /\ ba.idx <= Len(ba.walk)
    /\ \E env \in BindEnvs :
        LET addr == ba.walk[ba.idx]
            sp == NetworkSockaddrSprint(INET6_ADDRSTRLEN, addr.ai_addr)
            name == IF sp.ok THEN sp.text ELSE ba.name
            known == addr.ai_family \in {"AF_INET", "AF_INET6"}
            r == IF addr.ai_family = "AF_INET"
                 THEN NetworkBindIpv4(name, ba.port, env, open)
                 ELSE NetworkBindIpv6(name, ba.port, env, open)
            st == IF known /\ r.fd >= 0 THEN ArrayStore(ba, r.fd)
                  ELSE [size |-> ba.size, fds |-> ba.fds, count |-> ba.count,
                        overflow |-> ba.overflow]
        IN  /\ open' = IF known THEN r.open ELSE open
            /\ ba' = [ba EXCEPT !.idx = ba.idx + 1, !.name = name,
                                !.size = st.size, !.fds = st.fds, !.count = st.count,
                                !.overflow = st.overflow,
                                !.log = IF known
                                        THEN Append(ba.log, [idx |-> ba.idx, fd |-> r.fd])
                                        ELSE ba.log]
    /\ UNCHANGED <<errno, sPc, sRet, matchVars, equalVars, connVars, daemonVars>>

\* The end of the loop: freeaddrinfo(addrs) and the return.
BindAllFinish ==
    /\ sPc = "ba_loop"
    /\ ba.idx > Len(ba.walk)
    /\ sPc' = "returned"
    /\ sRet' = [fn |-> "network_bind_all", port |-> ba.port, gai |-> ba.gai,
                resolved |-> ba.resolved, walked |-> TRUE, allocated |-> TRUE,
                fds |-> ba.fds, count |-> ba.count, size |-> ba.size,
                overflow |-> ba.overflow, log |-> ba.log, openBefore |-> ba.openBefore]
    /\ UNCHANGED <<open, errno, ba, matchVars, equalVars, connVars, daemonVars>>

\* The descriptors the process holds when a binder is called.
OpenAtCall == {3..(2 + k) : k \in 0..MaxFds}

InitBind ==
    /\ IdleMatch
    /\ IdleEqual
    /\ IdleConn
    /\ IdleDaemon
    /\ open \in OpenAtCall
    /\ errno = ""
    /\ sPc = "idle"
    /\ sRet = <<>>
    /\ ba = <<>>

NextBind == BindIpv4 \/ BindIpv6 \/ BindAllStart \/ BindAllStep \/ BindAllFinish

SpecBind == InitBind /\ [][NextBind]_vars

(***************************************************************************)
(* Properties of the binders                                               *)
(***************************************************************************)

\* C6: after a call of network_bind_ipv4 or network_bind_ipv6 that returns
\* failure, the open descriptors are those open before the call.
C6_FailedBindLeavesNoDescriptor ==
    (sPc = "returned" /\ sRet.fn \in {"network_bind_ipv4", "network_bind_ipv6"}
        /\ sRet.fd = -1) => open = sRet.openBefore

BindSucceeded(x) == x.fd >= 0

\* C10: network_bind_all returns exactly the descriptors of the resolved
\* addresses whose bind succeeded, one per address and in resolution order,
\* whatever failed or was skipped in between, and the count is their number.
C10_BindAllCollectsSuccessfulBinds ==
    (sPc = "returned" /\ sRet.fn = "network_bind_all" /\ sRet.gai = 0) =>
        LET good == SelectSeq(sRet.log, BindSucceeded) IN
        /\ sRet.count = Len(good)
        /\ \A i \in 1..Len(good) : sRet.fds[i] = good[i].fd
        /\ \A i \in 1..Len(good) : good[i].fd \in open \ sRet.openBefore
        /\ \A i, j \in 1..Len(sRet.log) : i < j => sRet.log[i].idx < sRet.log[j].idx
        /\ {x.idx : x \in {sRet.log[i] : i \in 1..Len(sRet.log)}}
              = {i \in 1..Len(sRet.resolved) :
                    sRet.resolved[i].ai_family \in {"AF_INET", "AF_INET6"}}

\* Three resolved addresses, the second of which failed to bind: the first
\* and the third are returned.
C10_Witness ==
    /\ sPc = "returned" /\ sRet.fn = "network_bind_all" /\ sRet.gai = 0
    /\ Len(sRet.resolved) = 3 /\ Len(sRet.log) = 3
    /\ sRet.log[1].fd >= 0 /\ sRet.log[2].fd = -1 /\ sRet.log[3].fd >= 0
    /\ sRet.count = 2

(***************************************************************************)
(* network_source, network_connect, network_connect_host                   *)
(***************************************************************************)

\* network_source(fd, family, source): 1 or 0, and the errno a failing
\* bind() leaves ("" when nothing set errno: a source text that does not
\* parse fails without touching it).  source is <<>> for NULL; bound says
\* whether bind() was called and succeeded.
NetworkSource(family, source, bindAnswer) ==
    IF source = <<>> THEN [ok |-> TRUE, errno |-> "", op |-> "", bound |-> FALSE]
    ELSE IF family = "AF_INET" THEN
        IF source[1] = "all" THEN [ok |-> TRUE, errno |-> "", op |-> "", bound |-> FALSE]
        ELSE IF ~inet_aton(source[1]).ok
            THEN [ok |-> FALSE, errno |-> "", op |-> "source_parse", bound |-> FALSE]
        ELSE IF bindAnswer = "ok" THEN [ok |-> TRUE, errno |-> "", op |-> "", bound |-> TRUE]
        ELSE [ok |-> FALSE, errno |-> bindAnswer, op |-> "source_bind", bound |-> FALSE]
    ELSE IF HAVE_INET6 /\ family = "AF_INET6" THEN
        IF source[1] = "all" THEN [ok |-> TRUE, errno |-> "", op |-> "", bound |-> FALSE]
        ELSE IF ~inet_pton6(source[1]).ok
            THEN [ok |-> FALSE, errno |-> "", op |-> "source_parse", bound |-> FALSE]
        ELSE IF bindAnswer = "ok" THEN [ok |-> TRUE, errno |-> "", op |-> "", bound |-> TRUE]
        ELSE [ok |-> FALSE, errno |-> bindAnswer, op |-> "source_bind", bound |-> FALSE]
    ELSE [ok |-> TRUE, errno |-> "", op |-> "", bound |-> FALSE]

\* At most MaxCands candidate addresses are tried.
MaxCands == 2

\* A candidate: a struct addrinfo, and the kernel's answers to socket(), to
\* the bind() of the source address and to connect() for it.
Candidate(sa, sock, bind, conn) ==
    [ai_family |-> sa.family, ai_addr |-> sa,
     env |-> [sock |-> sock, bind |-> bind, conn |-> conn]]

CandidateKinds ==
    UNION {{Candidate(sa, "EAFNOSUPPORT", "ok", "ok"),
            Candidate(sa, "ok", "EADDRNOTAVAIL", "ok"),
            Candidate(sa, "ok", "ok", "ECONNREFUSED"),
            Candidate(sa, "ok", "ok", "ok")} :
           sa \in {SockaddrIn(<<203, 0, 113, 5>>, 4444),
                   SockaddrIn6(<<32, 1, 13, 184, 0, 0, 0, 0, 0, 0, 0, 0, 0, 0, 0, 1>>, 4444, Zero4)}}

\* The source argument: NULL, "all", an IPv4 text, an IPv6 text, and a text
\* that is no address.
Sources == {<<>>, <<"all">>, <<"10.0.0.1">>, <<"::1">>, <<"bogus">>}

\* What close() and freeaddrinfo() may leave in errno: nothing, or an error.
Clobbers == {"", "EIO"}

NoSocket == [cand |-> 0, bound |-> FALSE, connected |-> FALSE]

InitConnect ==
    /\ IdleMatch
    /\ IdleEqual
    /\ IdleBind
    /\ IdleDaemon
    /\ open \in {{}, 3..(1 + MaxFds)}
    /\ errno = "E_CALLER"
    /\ \E cands \in SeqsUpTo(CandidateKinds, MaxCands), source \in Sources,
          viaHost \in BOOLEAN :
        /\ cIn = [cands |-> cands, source |-> source, viaHost |-> viaHost,
                  openBefore |-> open]
        /\ cPc = IF viaHost THEN "host" ELSE "loop"
    /\ cLoc = [ai |-> 1, fd |-> -1, success |-> 0]
    /\ cHist = [tried |-> <<>>, sock |-> [f \in Fds |-> NoSocket],
                errnoBy |-> [cand |-> 0, op |-> "caller"],
                lastFail |-> [cand |-> 0, op |-> "none"],
                resolved |-> TRUE]
    /\ cRes = 0

\* network_connect_host up to its call of network_connect: getaddrinfo
\* either fails, and -1 is returned at once, or yields the candidates.
ConnectHostResolve ==
    /\ cPc = "host"
    /\ \E ok \in BOOLEAN :
        IF ok
        THEN /\ cPc' = "loop"
             /\ UNCHANGED <<cHist, cRes>>
        ELSE /\ cPc' = "done"
             /\ cRes' = -1
             /\ cHist' = [cHist EXCEPT !.resolved = FALSE]
    /\ UNCHANGED <<cIn, cLoc, open, errno, matchVars, equalVars, bindVars, daemonVars>>

\* Variant of ClosePrior: the loop body without that close.
ClosePriorSkipMut(fd, openSet) == openSet

\* if (fd >= 0) close(fd); at the top of the loop body.
ClosePrior(fd, openSet) == IF fd >= 0 THEN openSet \ {fd} ELSE openSet

\* The loop test (ai != NULL) and the close of the previous attempt's socket.
ConnectLoopTop ==
    /\ cPc = "loop"
    /\ IF cLoc.ai > Len(cIn.cands)
       THEN /\ cPc' = "after"
            /\ UNCHANGED <<open, errno, cHist>>
       ELSE /\ cPc' = "socket"
            /\ open' = ClosePrior(cLoc.fd, open)
            /\ \E clob \in Clobbers :
                IF cLoc.fd >= 0 /\ clob # ""
                THEN /\ errno' = clob
                     /\ cHist' = [cHist EXCEPT !.errnoBy = [cand |-> cLoc.ai, op |-> "close"],
                                               !.sock[cLoc.fd] = NoSocket]
                ELSE /\ errno' = errno
                     /\ cHist' = IF cLoc.fd >= 0
                                 THEN [cHist EXCEPT !.sock[cLoc.fd] = NoSocket]
                                 ELSE cHist
    /\ UNCHANGED <<cIn, cLoc, cRes, matchVars, equalVars, bindVars, daemonVars>>

\* fd = socket(...); if (fd < 0) continue;
ConnectSocket ==
    /\ cPc = "socket"
    /\ LET cand == cIn.cands[cLoc.ai]
           r == SocketCall(open, cand.env.sock)
       IN  IF r.fd < 0
           THEN /\ cLoc' = [cLoc EXCEPT !.fd = -1, !.ai = cLoc.ai + 1]
                /\ cPc' = "loop"
                /\ errno' = r.errno
                /\ open' = open
                /\ cHist' = [cHist EXCEPT !.tried = Append(cHist.tried, cLoc.ai),
                                          !.errnoBy = [cand |-> cLoc.ai, op |-> "socket"],
                                          !.lastFail = [cand |-> cLoc.ai, op |-> "socket"]]
           ELSE /\ cLoc' = [cLoc EXCEPT !.fd = r.fd]
                /\ cPc' = "source"
                /\ errno' = errno
                /\ open' = open \cup {r.fd}
                /\ cHist' = [cHist EXCEPT !.tried = Append(cHist.tried, cLoc.ai),
                                          !.sock[r.fd] = [cand |-> cLoc.ai, bound |-> FALSE,
                                                          connected |-> FALSE]]
    /\ UNCHANGED <<cIn, cRes, matchVars, equalVars, bindVars, daemonVars>>

\* if (!network_source(fd, ai->ai_family, source)) continue;
ConnectSource ==
    /\ cPc = "source"
    /\ LET cand == cIn.cands[cLoc.ai]
           r == NetworkSource(cand.ai_family, cIn.source, cand.env.bind)
       IN  IF ~r.ok
           THEN /\ cLoc' = [cLoc EXCEPT !.ai = cLoc.ai + 1]
                /\ cPc' = "loop"
                /\ errno' = IF r.errno = "" THEN errno ELSE r.errno
                /\ cHist' = [cHist EXCEPT
                                !.errnoBy = IF r.errno = "" THEN cHist.errnoBy
                                            ELSE [cand |-> cLoc.ai, op |-> r.op],
                                !.lastFail = [cand |-> cLoc.ai, op |-> r.op]]
           ELSE /\ cLoc' = cLoc
                /\ cPc' = "connect"
                /\ errno' = errno
                /\ cHist' = [cHist EXCEPT !.sock[cLoc.fd].bound = r.bound]
    /\ UNCHANGED <<cIn, cRes, open, matchVars, equalVars, bindVars, daemonVars>>

\* Variant of AfterConnect: the loop without the break: it goes on to the next candidate.
AfterConnectNoBreakMut(connected) == "loop"

\* Where the loop goes after connect(): break on success, the next
\* candidate otherwise.
AfterConnect(connected) == IF connected THEN "after" ELSE "loop"

\* if (connect(fd, ai->ai_addr, ai->ai_addrlen) == 0) { success = 1; break; }
ConnectConnect ==
    /\ cPc = "connect"
    /\ LET cand == cIn.cands[cLoc.ai]
           connected == cand.env.conn = "ok"
       IN  /\ cPc' = AfterConnect(connected)
           /\ IF connected
              THEN /\ cLoc' = [cLoc EXCEPT !.success = 1,
                                           !.ai = IF AfterConnect(connected) = "after"
                                                  THEN cLoc.ai ELSE cLoc.ai + 1]
                   /\ errno' = errno
                   /\ cHist' = [cHist EXCEPT !.sock[cLoc.fd].connected = TRUE]
              ELSE /\ cLoc' = [cLoc EXCEPT !.ai = cLoc.ai + 1]
                   /\ errno' = cand.env.conn
                   /\ cHist' = [cHist EXCEPT
                                   !.errnoBy = [cand |-> cLoc.ai, op |-> "connect"],
                                   !.lastFail = [cand |-> cLoc.ai, op |-> "connect"]]
    /\ UNCHANGED <<cIn, cRes, open, matchVars, equalVars, bindVars, daemonVars>>

\* oerrno = errno; <a call that may set errno>; errno = oerrno;
KeepErrno(saved, clobber) == saved

\* After the loop: return fd on success; otherwise close the last socket,
\* keeping errno, and return -1.  network_connect_host then frees the list.
ConnectReturn ==
    /\ cPc = "after"
    /\ cPc' = IF cIn.viaHost THEN "host_free" ELSE "done"
    /\ IF cLoc.success = 1
       THEN /\ cRes' = cLoc.fd
            /\ UNCHANGED <<open, errno, cHist>>
       ELSE /\ cRes' = -1
            /\ IF cLoc.fd >= 0
               THEN /\ open' = open \ {cLoc.fd}
                    /\ \E clob \in Clobbers : errno' = KeepErrno(errno, clob)
                    /\ cHist' = [cHist EXCEPT !.sock[cLoc.fd] = NoSocket]
               ELSE UNCHANGED <<open, errno, cHist>>
    /\ UNCHANGED <<cIn, cLoc, matchVars, equalVars, bindVars, daemonVars>>

\* network_connect_host after network_connect: oerrno = errno;
\* freeaddrinfo(ai); errno = oerrno; return fd;
ConnectHostFree ==
    /\ cPc = "host_free"
    /\ cPc' = "done"
    /\ \E clob \in Clobbers : errno' = KeepErrno(errno, clob)
    /\ UNCHANGED <<cIn, cLoc, cHist, cRes, open, matchVars, equalVars, bindVars, daemonVars>>

NextConnect ==
    \/ ConnectHostResolve
    \/ ConnectLoopTop
    \/ ConnectSocket
    \/ ConnectSource
    \/ ConnectConnect
    \/ ConnectReturn
    \/ ConnectHostFree

SpecConnect == InitConnect /\ [][NextConnect]_vars

(***************************************************************************)
(* Properties of network_connect                                           *)
(***************************************************************************)

\* Whether a candidate can be connected to with the given source, judged
\* from the kernel's answers and the family of the source text alone.
SourceFamily(source) ==
    IF source = <<>> \/ source = <<"all">> THEN "any"
    ELSE IF source = <<"10.0.0.1">> THEN "AF_INET"
    ELSE IF source = <<"::1">> THEN "AF_INET6"
    ELSE "none"

CandidateConnects(cand, source) ==
    /\ cand.env.sock = "ok"
    /\ \/ SourceFamily(source) = "any"
       \/ SourceFamily(source) = cand.ai_family /\ cand.env.bind = "ok"
    /\ cand.env.conn = "ok"

Connecting == {i \in 1..Len(cIn.cands) : CandidateConnects(cIn.cands[i], cIn.source)}

LastTried == IF Connecting = {} THEN Len(cIn.cands) ELSE Min(Connecting)

\* C7: network_connect tries the candidates in list order and stops at the
\* first one for which socket creation, source binding and connect all
\* succeed: a candidate whose socket or source bind fails is only skipped,
\* no candidate after the first successful one is ever attempted, and the
\* descriptor returned is the one connected to that candidate (-1 when no
\* candidate succeeds).
C7_FirstSuccessfulCandidateWins ==
    (cPc # "off" /\ cHist.resolved) =>
        /\ \A n \in 1..Len(cHist.tried) : cHist.tried[n] = n /\ n <= LastTried
        /\ cPc \in {"after", "host_free", "done"} =>
            /\ Len(cHist.tried) = LastTried
            /\ cLoc.success = (IF Connecting = {} THEN 0 ELSE 1)
        /\ cPc \in {"host_free", "done"} =>
            IF Connecting = {} THEN cRes = -1
            ELSE /\ cRes \in Fds
                 /\ cHist.sock[cRes].cand = LastTried
                 /\ cHist.sock[cRes].connected

\* The first candidate is refused by its peer, the second one's source bind
\* and connect succeed, and its descriptor is returned.
C7_Witness ==
    /\ cPc = "done"
    /\ Len(cIn.cands) = 2
    /\ cIn.cands[1].env.conn = "ECONNREFUSED"
    /\ cIn.source = <<"::1">>
    /\ cHist.tried = <<1, 2>>
    /\ cRes \in Fds
    /\ cHist.sock[cRes] = [cand |-> 2, bound |-> TRUE, connected |-> TRUE]

\* C8: while network_connect runs it holds at most one descriptor of its
\* own, the socket of a failed attempt being closed before the next one is
\* created; when it returns, the descriptors open are those open at the call
\* plus the returned one on success, and exactly those open at the call
\* when every candidate failed.
C8_AtMostOneSocketAndNoneOnFailure ==
    cPc # "off" =>
        /\ cIn.openBefore \subseteq open
        /\ Cardinality(open \ cIn.openBefore) <= 1
        /\ cPc \in {"host_free", "done"} =>
            open = cIn.openBefore \cup (IF cRes >= 0 THEN {cRes} ELSE {})

\* Two candidates both got a socket and both failed; nothing is left open.
C8_Witness ==
    /\ cPc = "done"
    /\ cRes = -1
    /\ cHist.tried = <<1, 2>>
    /\ \A i \in 1..2 : cIn.cands[i].env.sock = "ok"
    /\ cHist.lastFail = [cand |-> 2, op |-> "connect"]
    /\ open = cIn.openBefore

\* C9: when network_connect returns -1 after trying at least one candidate,
\* errno is the value written by the failing step of the last candidate
\* attempted.
C9_ErrnoIsLastAttemptsFailure ==
    (cPc = "done" /\ cHist.resolved /\ cRes = -1 /\ Len(cHist.tried) > 0) =>
        /\ cHist.lastFail.cand = cHist.tried[Len(cHist.tried)]
        /\ cHist.errnoBy = cHist.lastFail

(***************************************************************************)
(* remctld: main, create_socket, acquire_creds, server_handle_connection   *)
(***************************************************************************)

\* gss_cred_id_t creds = GSS_C_NO_CREDENTIAL;
GSS_C_NO_CREDENTIAL == <<>>

\* alarm(60 * 60);
WatchdogSeconds == 3600

\* unsigned short port = 4444;
DefaultPort == 4444

\* (long) getpid()
Pid == 4242

\* The daemon is followed through at most MaxAccepts calls of accept.
MaxAccepts == 3

\* The command line as getopt reads it: opt is "run" when every option is
\* known and neither -h nor -v is among them.
DaemonArgs ==
    [opt : {"run", "help", "version", "bad"},
     do_standalone : BOOLEAN,
     pid_path : {<<>>, <<"/var/run/remctld.pid">>},
     service : {<<>>, <<"remctl/host.example.org">>},
     port : {DefaultPort}]

InitDaemon ==
    /\ IdleMatch
    /\ IdleEqual
    /\ IdleBind
    /\ IdleConn
    /\ open = {0, 1, 2}
    /\ errno = ""
    /\ dPc = "start"
    /\ dIn \in DaemonArgs
    /\ dLoc = [creds |-> GSS_C_NO_CREDENTIAL, stmp |-> -1, s |-> -1, alarm |-> 0,
               fd |-> -1, client |-> <<>>, pid_file |-> <<>>]
    /\ dHist = [alarms |-> <<>>, listens |-> <<>>, pidWrites |-> 0, accepts |-> 0,
                accepted |-> <<>>, calls |-> <<>>, closed |-> <<>>, returns |-> 0,
                outcomes |-> <<>>,
                credsFailed |-> FALSE, pidFailed |-> FALSE, released |-> <<>>,
                exit |-> ""]

\* alarm(60 * 60), the first statement of main.
MainAlarm ==
    /\ dPc = "start"
    /\ dPc' = "options"
    /\ dLoc' = [dLoc EXCEPT !.alarm = WatchdogSeconds]
    /\ dHist' = [dHist EXCEPT !.alarms = Append(dHist.alarms, WatchdogSeconds)]
    /\ UNCHANGED <<dIn, fdVars, matchVars, equalVars, bindVars, connVars>>

\* The getopt loop: -h and -v exit(0), an unknown option dies in usage(1).
MainOptions ==
    /\ dPc = "options"
    /\ dPc' = CASE dIn.opt = "run" -> "config"
                [] dIn.opt \in {"help", "version"} -> "exited"
                [] OTHER -> "died"
    /\ dHist' = [dHist EXCEPT !.exit = CASE dIn.opt = "run" -> ""
                                         [] dIn.opt \in {"help", "version"} -> dIn.opt
                                         [] OTHER -> "die"]
    /\ UNCHANGED <<dIn, dLoc, fdVars, matchVars, equalVars, bindVars, connVars>>

\* config = server_config_load(conffile); if (config == NULL) die(...);
MainConfig ==
    /\ dPc = "config"
    /\ \E loaded \in BOOLEAN :
        /\ dPc' = IF loaded THEN "creds" ELSE "died"
        /\ dHist' = [dHist EXCEPT !.exit = IF loaded THEN "" ELSE "die"]
    /\ UNCHANGED <<dIn, dLoc, fdVars, matchVars, equalVars, bindVars, connVars>>

\* acquire_creds(service, &creds): 1 and the credential of the service, or
\* 0 when gss_import_name or gss_acquire_cred does not complete.
AcquireCreds(service, answer, creds) ==
    IF answer = "import_failed" THEN [ok |-> FALSE, creds |-> creds]
    ELSE IF answer = "acquire_failed" THEN [ok |-> FALSE, creds |-> creds]
    ELSE [ok |-> TRUE, creds |-> <<service>>]

\* Variant of AfterCreds: main goes on when acquire_creds fails.
AfterCredsGoOnMut(ok) == "mode"

\* if (!acquire_creds(service, &creds)) die("unable to acquire creds, aborting");
AfterCreds(ok) == IF ok THEN "mode" ELSE "died"

\* if (service != NULL) { if (!acquire_creds(...)) die(...); }
MainCreds ==
    /\ dPc = "creds"
    /\ IF dIn.service = <<>>
       THEN /\ dPc' = "mode"
            /\ UNCHANGED <<dLoc, dHist>>
       ELSE \E answer \in {"complete", "import_failed", "acquire_failed"} :
            LET r == AcquireCreds(dIn.service[1], answer, dLoc.creds) IN
            /\ dPc' = AfterCreds(r.ok)
            /\ dLoc' = [dLoc EXCEPT !.creds = r.creds]
            /\ dHist' = [dHist EXCEPT !.credsFailed = ~r.ok,
                                      !.exit = IF AfterCreds(r.ok) = "died"
                                               THEN "die" ELSE ""]
    /\ UNCHANGED <<dIn, fdVars, matchVars, equalVars, bindVars, connVars>>

\* Variant of HandlerCall: the call passes GSS_C_NO_CREDENTIAL for creds.
HandlerCallNoCredsMut(fd, creds) == [fd |-> fd, creds |-> GSS_C_NO_CREDENTIAL]

\* server_handle_connection(0, config, creds) and
\* server_handle_connection(s, config, creds)
HandlerCall(fd, creds) == [fd |-> fd, creds |-> creds]

\* Variant of DisarmWatchdog: the alarm(0) is left out.
DisarmWatchdogSkipMut(alarm) == alarm

\* alarm(0);
DisarmWatchdog(alarm) == 0

\* if (!do_standalone) server_handle_connection(0, config, creds);
\* else { alarm(0); ...
MainMode ==
    /\ dPc = "mode"
    /\ IF ~dIn.do_standalone
       THEN LET call == HandlerCall(0, dLoc.creds) IN
            /\ dPc' = "new_client"
            /\ dLoc' = [dLoc EXCEPT !.fd = call.fd]
            /\ dHist' = [dHist EXCEPT !.calls = Append(dHist.calls, call)]
       ELSE /\ dPc' = "create_socket"
            /\ dLoc' = [dLoc EXCEPT !.alarm = DisarmWatchdog(dLoc.alarm)]
            /\ dHist' = [dHist EXCEPT !.alarms =
                            IF DisarmWatchdog(dLoc.alarm) = 0
                            THEN Append(dHist.alarms, 0) ELSE dHist.alarms]
    /\ UNCHANGED <<dIn, fdVars, matchVars, equalVars, bindVars, connVars>>

\* create_socket(port), with the kernel's answers to socket(), bind() and
\* listen() in env: the listening descriptor, or -1 with the socket closed.
CreateSocket(port, env, openSet) ==
    LET r == SocketCall(openSet, env.sock)
        saddr == SockaddrIn(Zero4, port)
    IN  IF r.fd < 0 THEN [fd |-> -1, open |-> openSet, saddr |-> saddr]
        ELSE IF env.bind # "ok" THEN [fd |-> -1, open |-> openSet, saddr |-> saddr]
        ELSE IF env.listen # "ok" THEN [fd |-> -1, open |-> openSet, saddr |-> saddr]
        ELSE [fd |-> r.fd, open |-> openSet \cup {r.fd}, saddr |-> saddr]

ListenEnvs ==
    [sock : {"ok", "EMFILE"}, bind : {"ok", "EADDRINUSE"}, listen : {"ok", "EADDRINUSE"}]

\* stmp = create_socket(port); if (stmp < 0) sysdie("cannot create socket");
MainCreateSocket ==
    /\ dPc = "create_socket"
    /\ \E env \in ListenEnvs :
        LET r == CreateSocket(dIn.port, env, open) IN
        /\ open' = r.open
        /\ dLoc' = [dLoc EXCEPT !.stmp = r.fd]
        /\ dPc' = IF r.fd < 0 THEN "died" ELSE "pid_file"
        /\ dHist' = [dHist EXCEPT !.listens = IF r.fd < 0 THEN dHist.listens
                                              ELSE Append(dHist.listens, r.fd),
                                  !.exit = IF r.fd < 0 THEN "die" ELSE ""]
    /\ UNCHANGED <<dIn, errno, matchVars, equalVars, bindVars, connVars>>

\* fprintf(pid_file, "%ld\n", (long) getpid());
PidText(pid) == Dec(pid) \o "\n"

\* Variant of AfterFopen: main goes on when fopen returns NULL.
AfterFopenGoOnMut(opened) == "accept"

\* if (pid_file == NULL) sysdie("cannot create PID file %s", pid_path);
AfterFopen(opened) == IF opened THEN "accept" ELSE "died"

\* if (pid_path != NULL) { pid_file = fopen(pid_path, "w"); ...; fclose(pid_file); }
MainPidFile ==
    /\ dPc = "pid_file"
    /\ IF dIn.pid_path = <<>>
       THEN /\ dPc' = "accept"
            /\ UNCHANGED <<dLoc, dHist>>
       ELSE \E opened \in BOOLEAN :
            /\ dPc' = AfterFopen(opened)
            /\ dLoc' = [dLoc EXCEPT !.pid_file = IF opened THEN <<PidText(Pid)>>
                                                 ELSE dLoc.pid_file]
            /\ dHist' = [dHist EXCEPT !.pidWrites = IF opened THEN dHist.pidWrites + 1
                                                    ELSE dHist.pidWrites,
                                      !.pidFailed = ~opened,
                                      !.exit = IF AfterFopen(opened) = "died"
                                               THEN "die" ELSE ""]
    /\ UNCHANGED <<dIn, fdVars, matchVars, equalVars, bindVars, connVars>>

\* Variant of AfterAccept: an accepted connection is not handed to the
\* handler before accept is called again.
AfterAcceptNoHandlerMut(fd) == "accept"

\* if (s < 0) { syswarn(...); continue; } server_handle_connection(s, ...);
AfterAccept(fd) == IF fd < 0 THEN "accept" ELSE "new_client"

\* s = accept(stmp, NULL, 0); the kernel hands back the lowest free
\* descriptor, or fails.
MainAccept ==
    /\ dPc = "accept"
    /\ dHist.accepts < MaxAccepts
    /\ \E answer \in {"ok", "ECONNABORTED"} :
        LET r == SocketCall(open, answer)
            call == HandlerCall(r.fd, dLoc.creds)
        IN  /\ dPc' = AfterAccept(r.fd)
            /\ open' = IF r.fd < 0 THEN open ELSE open \cup {r.fd}
            /\ errno' = IF r.fd < 0 THEN r.errno ELSE errno
            /\ dLoc' = [dLoc EXCEPT !.s = r.fd,
                                    !.fd = IF AfterAccept(r.fd) = "new_client"
                                           THEN call.fd ELSE dLoc.fd]
            /\ dHist' = [dHist EXCEPT
                            !.accepts = dHist.accepts + 1,
                            !.accepted = IF r.fd < 0 THEN dHist.accepted
                                         ELSE Append(dHist.accepted, r.fd),
                            !.calls = IF AfterAccept(r.fd) = "new_client"
                                      THEN Append(dHist.calls, call) ELSE dHist.calls]
    /\ UNCHANGED <<dIn, matchVars, equalVars, bindVars, connVars>>

\* Variant of AfterHandler: the do ... while loop ends after one connection.
AfterHandlerLeaveLoopMut(standalone) == "cleanup"

\* Where main goes on when server_handle_connection returns: the next
\* accept of do { ... } while (1), or the clean-up of the single-shot mode.
AfterHandler(standalone) == IF standalone THEN "accept" ELSE "cleanup"

\* server_new_client(fd, creds): a client whose connection is fd, or NULL
\* when no security context could be established.
ServerNewClient(fd, creds, protocol) ==
    IF protocol = 0 THEN <<>>
    ELSE <<[fd |-> fd, creds |-> creds, protocol |-> protocol]>>

\* Variant of CloseWithoutClient: the close(fd) is left out.
CloseWithoutClientSkipMut(fd, openSet) == [open |-> openSet, closed |-> <<>>]

\* if (client == NULL) { close(fd); return; }
CloseWithoutClient(fd, openSet) == [open |-> openSet \ {fd}, closed |-> <<fd>>]

\* client = server_new_client(fd, creds); if (client == NULL) { ... return; }
HandleNewClient ==
    /\ dPc = "new_client"
    /\ \E protocol \in {0, 1, 2} :
        LET client == ServerNewClient(dLoc.fd, dHist.calls[Len(dHist.calls)].creds, protocol)
            r == CloseWithoutClient(dLoc.fd, open)
        IN  IF client = <<>>
            THEN /\ dPc' = AfterHandler(dIn.do_standalone)
                 /\ open' = r.open
                 /\ dLoc' = [dLoc EXCEPT !.client = <<>>]
                 /\ dHist' = [dHist EXCEPT !.closed = dHist.closed \o r.closed,
                                           !.returns = dHist.returns + 1,
                                           !.outcomes = Append(dHist.outcomes, "no_client")]
            ELSE /\ dPc' = "commands"
                 /\ open' = open
                 /\ dLoc' = [dLoc EXCEPT !.client = client]
                 /\ dHist' = dHist
    /\ UNCHANGED <<dIn, errno, matchVars, equalVars, bindVars, connVars>>

\* server_v1_handle_commands(client, config) or
\* server_v2_handle_commands(client, config), by client->protocol; either
\* comes back when the client is done, whatever became of its commands.
HandleCommands ==
    /\ dPc = "commands"
    /\ dPc' = "free_client"
    /\ UNCHANGED <<dIn, dLoc, dHist, fdVars, matchVars, equalVars, bindVars, connVars>>

\* server_free_client(client): shuts the client connection down, closing
\* its descriptor.
ServerFreeClient(client, openSet) ==
    [open |-> openSet \ {client.fd}, closed |-> <<client.fd>>]

\* server_free_client(client); and the return of the handler.
HandleFreeClient ==
    /\ dPc = "free_client"
    /\ LET r == ServerFreeClient(dLoc.client[1], open) IN
        /\ open' = r.open
        /\ dHist' = [dHist EXCEPT !.closed = dHist.closed \o r.closed,
                                  !.returns = dHist.returns + 1,
                                  !.outcomes = Append(dHist.outcomes,
                                      IF dLoc.client[1].protocol = 1 THEN "v1" ELSE "v2")]
    /\ dPc' = AfterHandler(dIn.do_standalone)
    /\ dLoc' = [dLoc EXCEPT !.client = <<>>]
    /\ UNCHANGED <<dIn, errno, matchVars, equalVars, bindVars, connVars>>

\* Variant of ReleaseCreds: the credential is not released.
ReleaseCredsSkipMut(creds) == [creds |-> creds, released |-> <<>>]

\* if (creds != GSS_C_NO_CREDENTIAL) gss_release_cred(&minor, &creds);
ReleaseCreds(creds) ==
    IF creds # GSS_C_NO_CREDENTIAL
    THEN [creds |-> GSS_C_NO_CREDENTIAL, released |-> <<creds>>]
    ELSE [creds |-> creds, released |-> <<>>]

\* Clean up and exit: release the credential and return 0.
MainCleanup ==
    /\ dPc = "cleanup"
    /\ dPc' = "exited"
    /\ LET r == ReleaseCreds(dLoc.creds) IN
        /\ dLoc' = [dLoc EXCEPT !.creds = r.creds]
        /\ dHist' = [dHist EXCEPT !.released = dHist.released \o r.released,
                                  !.exit = "return"]
    /\ UNCHANGED <<dIn, fdVars, matchVars, equalVars, bindVars, connVars>>

\* SIGALRM: the armed timer runs out and the process is terminated.  The
\* hour can only pass where the process waits on its peer: in accept and
\* while a client is served.
WatchdogFires ==
    /\ dPc \in {"accept", "new_client", "commands"}
    /\ dLoc.alarm > 0
    /\ dPc' = "killed"
    /\ dHist' = [dHist EXCEPT !.exit = "alarm"]
    /\ UNCHANGED <<dIn, dLoc, fdVars, matchVars, equalVars, bindVars, connVars>>

NextDaemon ==
    \/ MainAlarm
    \/ MainOptions
    \/ MainConfig
    \/ MainCreds
    \/ MainMode
    \/ MainCreateSocket
    \/ MainPidFile
    \/ MainAccept
    \/ HandleNewClient
    \/ HandleCommands
    \/ HandleFreeClient
    \/ MainCleanup
    \/ WatchdogFires

SpecDaemon == InitDaemon /\ [][NextDaemon]_vars

(***************************************************************************)
(* Properties of remctld                                                   *)
(***************************************************************************)

Serving == {"new_client", "commands", "free_client"}

\* C11: when a service identity was requested and its credential could not
\* be acquired, the daemon dies at once: it has created no listening
\* socket, written no PID file, called accept never and the connection
\* handler never, in standalone and in single-shot mode alike.
C11_CredsFailureIsFatal ==
    (dPc # "off" /\ dHist.credsFailed) =>
        /\ dPc = "died"
        /\ dHist.listens = <<>>
        /\ dHist.pidWrites = 0 /\ dLoc.pid_file = <<>>
        /\ dHist.accepts = 0
        /\ dHist.calls = <<>>
        /\ open = {0, 1, 2}

\* A standalone daemon with a PID file path died on its credential.
C11_Witness ==
    /\ dPc = "died"
    /\ dHist.credsFailed
    /\ dIn.do_standalone
    /\ dIn.service # <<>>
    /\ dIn.pid_path # <<>>

\* C12: in standalone mode, from the first accept on, every step leaves the
\* daemon in the accept loop with the same listening socket open: after a
\* failed accept and after every return of the connection handler, whether
\* a client was established or not, it is waiting in accept again.
C12_AcceptLoopNeverExits ==
    [][(dPc \in {"accept"} \cup Serving /\ dIn.do_standalone) =>
        /\ dPc' \in {"accept"} \cup Serving
        /\ dLoc'.stmp = dLoc.stmp
        /\ dLoc.stmp \in open'
        /\ (dHist'.accepts > dHist.accepts /\ dLoc'.s < 0) => dPc' = "accept"
        /\ dHist'.returns > dHist.returns => dPc' = "accept"]_vars

\* After a failed accept, a connection without a client and a served
\* connection, the daemon waits in accept on its listening socket.
C12_Witness ==
    /\ dPc = "accept"
    /\ dIn.do_standalone
    /\ dHist.accepts = 3
    /\ Len(dHist.accepted) = 2
    /\ dHist.outcomes = <<"no_client", "v2">>
    /\ dLoc.stmp \in open

\* The connection descriptors open: all but the standard streams and the
\* listening socket.
Connections == open \ ({0, 1, 2} \cup {dLoc.stmp})

\* C13: in standalone mode at most one connection handler is running at any
\* time: whenever the daemon is in accept every handler called so far has
\* returned, a running handler serves the connection accepted last, and
\* the handler is called on the accepted connections one by one, in accept
\* order.
C13_OneConnectionAtATime ==
    (dPc # "off" /\ dIn.do_standalone) =>
        /\ Len(dHist.calls) - dHist.returns \in {0, 1}
        /\ dPc = "accept" => dHist.returns = Len(dHist.calls)
        /\ dPc \in Serving =>
            /\ dHist.returns = Len(dHist.calls) - 1
            /\ dLoc.fd = dHist.accepted[Len(dHist.accepted)]
        /\ dHist.accepted = [i \in 1..Len(dHist.calls) |-> dHist.calls[i].fd]

\* The second accepted connection is served after the first one's handler
\* has returned.
C13_Witness ==
    /\ dPc = "commands"
    /\ dIn.do_standalone
    /\ Len(dHist.accepted) = 2
    /\ dHist.returns = 1
    /\ dLoc.fd = dLoc.s

\* C14: the call that arms the one-hour watchdog is the first thing main
\* does; a standalone daemon disarms it before it creates the listening
\* socket and never arms it again, so the timer is off whenever a listening
\* socket exists and while connections are accepted and served; in
\* single-shot mode it stays armed while the connection is served.
C14_WatchdogScope ==
    dPc # "off" =>
        /\ dPc = "start" =>
            (dLoc.alarm = 0 /\ dHist.alarms = <<>> /\ dHist.exit = "" /\ open = {0, 1, 2})
        /\ dPc # "start" => dHist.alarms[1] = WatchdogSeconds
        /\ dHist.alarms \in {<<>>, <<WatchdogSeconds>>, <<WatchdogSeconds, 0>>}
        /\ (dIn.do_standalone
                /\ (dPc \in {"create_socket", "pid_file", "accept"} \cup Serving
                      \/ dHist.listens # <<>> \/ dHist.accepts > 0)) =>
            (dLoc.alarm = 0 /\ dHist.alarms = <<WatchdogSeconds, 0>>)
        /\ (~dIn.do_standalone /\ (dPc \in Serving \/ dHist.calls # <<>>)) =>
            (dLoc.alarm = WatchdogSeconds /\ dHist.alarms = <<WatchdogSeconds>>)

\* A standalone daemon serves a client with the watchdog off.
C14_Witness ==
    /\ dPc = "commands"
    /\ dIn.do_standalone
    /\ dHist.listens # <<>>
    /\ dLoc.alarm = 0
    /\ dHist.alarms = <<WatchdogSeconds, 0>>

StartupCreds == IF dIn.service = <<>> THEN GSS_C_NO_CREDENTIAL ELSE <<dIn.service[1]>>

\* C17: the credential established at start-up is the one every connection
\* handler is called with and the one main holds as long as it can serve:
\* no accept and no handler run, failed or not, changes it, and it is
\* released only in the clean-up that ends the process.
C17_CredentialIsStable ==
    dPc # "off" =>
        /\ \A i \in 1..Len(dHist.calls) : dHist.calls[i].creds = StartupCreds
        /\ dLoc.client # <<>> => dLoc.client[1].creds = StartupCreds
        /\ dPc \in {"mode", "create_socket", "pid_file", "accept", "cleanup"} \cup Serving =>
            dLoc.creds = StartupCreds
        /\ dHist.released # <<>> => (dPc = "exited" /\ dHist.released = <<StartupCreds>>)

\* The third connection of a daemon holding a scoped credential is served
\* with it, after a failed handler run.
C17_Witness ==
    /\ dPc = "commands"
    /\ dIn.service # <<>>
    /\ Len(dHist.calls) = 3
    /\ dHist.outcomes = <<"no_client", "v2">>
    /\ dLoc.client[1].creds = <<dIn.service[1]>>

\* C18: the PID file is written at most once, only by a standalone daemon
\* given a path, after its listening socket exists and before its first
\* accept; it holds the process id in decimal and a newline; a daemon that
\* cannot create the file dies without calling accept.
C18_PidFileOnceBeforeAccept ==
    dPc # "off" =>
        /\ dHist.pidWrites <= 1
        /\ dHist.pidWrites = 1 =>
            /\ dIn.do_standalone /\ dIn.pid_path # <<>>
            /\ dHist.listens # <<>> /\ dLoc.stmp \in open
            /\ dLoc.pid_file = <<"4242\n">>
        /\ dHist.pidWrites = 0 => dLoc.pid_file = <<>>
        /\ (dPc = "pid_file") => (dHist.pidWrites = 0 /\ dHist.accepts = 0)
        /\ (dHist.accepts > 0 /\ dIn.pid_path # <<>>) => dHist.pidWrites = 1
        /\ dHist.pidFailed => (dPc = "died" /\ dHist.accepts = 0 /\ dHist.calls = <<>>)

\* A standalone daemon wrote its PID file and then accepted a connection.
C18_Witness ==
    /\ dIn.do_standalone
    /\ dHist.pidWrites = 1
    /\ dLoc.pid_file = <<"4242\n">>
    /\ Len(dHist.accepted) = 1
    /\ dPc = "new_client"

(***************************************************************************)
(* Properties of the binders' wildcard aliases                             *)
(***************************************************************************)

\* What the caller sees of a binder call: the descriptor, the descriptors
\* open afterwards, the address given to bind() and whether it was logged.
Outcome(r) == [fd |-> r.fd, open |-> r.open, server |-> r.server, warned |-> r.warned]

C20_OtherFamilies ==
    ePc \in {"call", "done"} =>
        \A w \in {"a", "b"} :
            eGhost[w].fam = "other" =>
                /\ eOut.sprint[w] # <<>> =>
                    (~eOut.sprint[w][1].ok /\ eOut.sprint[w][1].errno = "EAFNOSUPPORT")
                /\ eOut.port[w] # <<>> => eOut.port[w][1] = 0
                /\ ePc = "done" => eRes = FALSE

\* Two identical AF_UNIX addresses compared unequal; the first could not be
\* printed and has port 0.
C20_Witness ==
    /\ ePc = "done"
    /\ eGhost.a.fam = "other"
    /\ eA = eB
    /\ eRes = FALSE
    /\ eOut.sprint.a # <<>>
    /\ errno = "EAFNOSUPPORT"
    /\ eOut.port.a = <<0>>

(***************************************************************************)
(* Properties of network_bind_all on a failed resolution and of its array  *)
(***************************************************************************)

\* C21: whenever getaddrinfo does not succeed, whatever the nonzero value it
\* returns, network_bind_all does not enter its loop over addrs, binds no
\* socket and reports a count of 0.
C21_FailedResolutionBindsNothing ==
    /\ sPc = "ba_loop" => ba.gai = 0
    /\ (sPc = "returned" /\ sRet.fn = "network_bind_all" /\ sRet.gai # 0) =>
        /\ ~sRet.walked
        /\ sRet.count = 0
        /\ open = sRet.openBefore

\* The array of network_bind_all as the state holds it: during the loop and
\* in what a call that allocated it returned.
BindAllArrays ==
    (IF sPc = "ba_loop" THEN {ba} ELSE {})
        \cup (IF sPc = "returned" /\ sRet.fn = "network_bind_all" /\ sRet.allocated
              THEN {sRet} ELSE {})

\* C25: at every step of the loop of network_bind_all the count of stored
\* descriptors is at most the capacity of the array, which is 2 at first
\* and grows by 2 just before a store that would not fit; no store went
\* past the last slot, and the stored descriptors fill the slots below the
\* count.
C25_CountWithinCapacity ==
    \A a \in BindAllArrays :
        /\ a.count <= a.size
        /\ ~a.overflow
        /\ Len(a.fds) = a.size
        /\ a.size = IF a.count <= 2 THEN 2 ELSE 2 * ((a.count + 1) \div 2)
        /\ \A i \in 1..a.size : (a.fds[i] # Unset) = (i <= a.count)

\* Three descriptors are stored in an array grown to four slots.
C25_Witness ==
    /\ sPc = "ba_loop"
    /\ ba.count = 3
    /\ ba.size = 4
    /\ ba.fds[3] \in open
    /\ ba.fds[4] = Unset

(***************************************************************************)
(* Properties relating network_sockaddr_equal and network_sockaddr_sprint  *)
(***************************************************************************)

HasColon(s) == \E i \in 1..Len(s) : At(s, i) = ":"

\* C22: for two socket addresses of the families IPv4 and IPv6,
\* network_sockaddr_equal is true exactly when network_sockaddr_sprint
\* prints both as the same text.  The text is the numeric address alone:
\* read back, it gives the address bytes, whatever the port; an IPv4-mapped
\* IPv6 address is printed as the dotted quad of its last four bytes.
C22_EqualIffSameText ==
    (ePc \in {"call", "done"} /\ eGhost.a.fam \in {"v4", "v6"} /\ eGhost.b.fam \in {"v4", "v6"}) =>
        /\ \A w \in {"a", "b"} :
            eOut.sprint[w] # <<>> =>
                LET r == eOut.sprint[w][1]
                    g == eGhost[w]
                IN  /\ r.ok
                    /\ IF g.fam = "v4"
                       THEN ~HasColon(r.text) /\ inet_aton(r.text) = [ok |-> TRUE, addr |-> g.addr]
                       ELSE IF \E x \in EqV4Addrs : IsMappedOf(g.addr, x)
                       THEN /\ ~HasColon(r.text)
                            /\ inet_aton(r.text).ok
                            /\ IsMappedOf(g.addr, inet_aton(r.text).addr)
                       ELSE /\ HasColon(r.text)
                            /\ inet_pton6(r.text) = [ok |-> TRUE, addr |-> g.addr]
        /\ (ePc = "done" /\ eOut.sprint.a # <<>> /\ eOut.sprint.b # <<>>) =>
            eRes = (eOut.sprint.a[1].text = eOut.sprint.b[1].text)

\* 203.0.113.5 on port 80 and ::ffff:203.0.113.5 on port 4444 are equal and
\* both printed as "203.0.113.5".
C22_Witness ==
    /\ ePc = "done"
    /\ eGhost.a = [fam |-> "v4", addr |-> <<203, 0, 113, 5>>]
    /\ eGhost.b.fam = "v6"
    /\ eA.port # eB.port
    /\ eRes = TRUE
    /\ eOut.sprint.a # <<>> /\ eOut.sprint.b # <<>>
    /\ eOut.sprint.a[1].text = "203.0.113.5"
    /\ eOut.sprint.b[1].text = "203.0.113.5"

\* C23: network_sockaddr_equal(a, b) and network_sockaddr_equal(b, a) return
\* the same value for socket addresses of any family, an IPv4 address with
\* an IPv6 one included.
C23_EqualIsSymmetric ==
    (ePc = "done" /\ eOut.swapped # <<>>) => eRes = eOut.swapped[1]

\* An IPv4 address and its IPv4-mapped form are equal in both orders.
C23_Witness ==
    /\ ePc = "done"
    /\ eGhost.a.fam = "v4"
    /\ eGhost.b.fam = "v6"
    /\ eOut.swapped = <<TRUE>>
    /\ eRes = TRUE

\* C24: network_addr_match is monotone in the prefix length: when two
\* addresses of one family match under a valid decimal prefix length n
\* (at most 32 for IPv4, 128 for IPv6), a call on the same two addresses
\* with any prefix length m <= n matches as well.
C24_MatchIsMonotoneInPrefix ==
    (/\ mPc = "done"
     /\ mShort # <<>>
     /\ mGhost.fam \in {"v4", "v6"}
     /\ mGhost.mask.kind = "prefix"
     /\ mGhost.mask.n <= (IF mGhost.fam = "v4" THEN 32 ELSE 128)
     /\ mRes = TRUE)
        => /\ mShort.m <= mGhost.mask.n
           /\ mShort.res = TRUE

\* Two different IPv4 addresses match under /24 and under the shorter /23.
C24_Witness ==
    /\ mPc = "done" /\ mShort # <<>> /\ mGhost.fam = "v4" /\ mGhost.mask.kind = "prefix"
    /\ mGhost.mask.n = 24 /\ mGhost.a # mGhost.b /\ mRes = TRUE
    /\ mShort.m = 23 /\ mShort.res = TRUE

=============================================================================
